---- MODULE Spec2Model ----
(***************************************************************************)
(* Fishbowl: the game reducer (gameReducer), its pool engine, the undo     *)
(* ledger, the event log and the text normalizer, as a state machine.      *)
(*                                                                         *)
(* The reducer is a pure function (state, action) -> state whose only      *)
(* outside inputs are the wall clock (nowEpochMs) and the shuffle.  Each   *)
(* case of the reducer is an operator from a GameState record to the SET   *)
(* of states it can return (one per outcome of the shuffle); each action   *)
(* of the specification applies one case to the live state.                *)
(*                                                                         *)
(* Encoding of null: 0 for a round number or an item id, -1 for a number   *)
(* of seconds or an epoch, "none" for a team, "null" for lastError, and    *)
(* the empty sequence for an object (pools, carryover), a present object   *)
(* being the one-element sequence holding it.                              *)
(* Ids made by createId are fresh and opaque: a player or item gets its    *)
(* position in players / items as id.  Events keep type, round, team and   *)
(* pointsDelta; their id, ts, wordId, wordText and note are not modelled.  *)
(***************************************************************************)
EXTENDS Integers, Sequences, FiniteSets, TLC

VARIABLES state, now, guessedIds, passedFresh, restarts, lastFinish, turnSnapshots,
          restartMarks, storage

vars == <<state, now, guessedIds, passedFresh, restarts, lastFinish, turnSnapshots,
          restartMarks, storage>>

-----------------------------------------------------------------------------
(* Bounds of the exploration.                                              *)

\* TURN_PASSED and TURN_GUESSED actions in the one long turn of SpecTurn.
MaxTurnActions == 11
\* TURN_GUESSED actions among them.
MaxTurnGuesses == 1
\* SpecServe: the items left when the players start to pass, and the standing
\* passes and guesses of a turn from then on.
MaxServeItems == 3
MaxServeStack == 2
\* SpecPersist: the storage calls in flight at a time, and the IndexedDB
\* requests that fail.
MaxPending == 2
MaxStorageFailures == 1

\* The reading of the wall clock when a turn starts (the reducer compares
\* clock readings only within one turn, so the epoch is re-based between turns).
ClockStartMs == 1000
\* The wall clock moves in steps of this many milliseconds during a turn.
ClockStepMs == 24500
\* TURN_PASSED actions the players take in one game.
MaxPasses == 2
\* Successful TURN_UNDO actions in one game.
MaxUndos == 1
\* Turns that run out of time in one game.
MaxTimeUps == 1
\* HOST_RESTART_ROUND actions in one game.
MaxRoundRestarts == 1
\* Passes, undos, time-ups and round restarts together in one game (Spec).
MaxExtras == 1
\* The same in a game that stays in round 1 (SpecRound1).
MaxRound1Extras == 2
\* The host proceeds to the next round only in games that had at most this
\* many passes, undos, time-ups and round restarts so far (Spec).
MaxCarriedExtras == 0
\* The random source returns values up to this one (shuffle.ts randomInt).
MaxRandom == 1
\* Longest sequence whose shuffles are enumerated in full
MaxShuffleLen == 4

-----------------------------------------------------------------------------
(* Program constants and the encoding of null.                             *)

NoRound == 0
NoItem == 0
NoSeconds == -1
\* The number NaN, which Number(text) returns for a text that is no number
\* (App.tsx, the setup inputs); no arithmetic of the model yields this value.
NaN == -999
NoTeam == "none"
NoError == "null"
NoObject == <<>>

Teams == {"A", "B"}
Rounds == {1, 2, 3}

PlayerCountMin == 2
PlayerCountMax == 30
TimerSecondsMin == 5
TimerSecondsMax == 300
DefaultPlayerCount == 8
DefaultRound1Seconds == 30
DefaultRound2Seconds == 45
DefaultRound3Seconds == 20
UndoStackCap == 10
LastRound == 3
MinLetters == 2

Max(a, b) == IF a >= b THEN a ELSE b
Min(a, b) == IF a <= b THEN a ELSE b

\* Math.ceil(n / 1000) for an integer n of either sign.
CeilDiv1000(n) == IF n >= 0 THEN (n + 999) \div 1000 ELSE -((-n) \div 1000)

\* Fault: a clamp without its upper limit.
clampIntNoMax(n, lo, hi) == Max(lo, n)

\* util.ts clampInt, for integer inputs and NaN: Math.trunc, Math.min and
\* Math.max return NaN when an argument is NaN.
clampInt(n, lo, hi) == IF n = NaN THEN NaN ELSE Max(lo, Min(hi, n))

\* util.ts otherTeam
otherTeam(teamId) == IF teamId = "A" THEN "B" ELSE "A"

Range(seq) == {seq[i] : i \in 1..Len(seq)}

-----------------------------------------------------------------------------
(* Text: a string is a sequence of characters, a character a short string. *)
(* Besides ASCII, three characters stand for the rest of Unicode:          *)
(* "e_acute" (U+00E9, a letter that NFKD splits into "e" and the combining *)
(* mark "comb_acute", which is no letter) and "ka" (a letter of another    *)
(* script, that NFKD keeps).                                               *)

AsciiUpper == {"A", "B", "C", "D", "M", "S"}
AsciiLower == {"a", "b", "c", "d", "e", "f", "g", "h", "i", "j", "k", "l",
               "m", "n", "o", "p", "r", "s"}
Digits == {"1", "2"}
Whitespace == {" "}
OtherLetters == {"e_acute", "ka"}

\* /[A-Za-z]/
IsAsciiLetter(c) == c \in AsciiUpper \cup AsciiLower
\* \p{L}
IsUnicodeLetter(c) == IsAsciiLetter(c) \/ c \in OtherLetters
\* \p{N}
IsNumber(c) == c \in Digits
\* \s
IsSpace(c) == c \in Whitespace

\* String.prototype.toLowerCase, one character
ToLowerChar(c) ==
  CASE c = "A" -> "a" [] c = "B" -> "b" [] c = "C" -> "c" [] c = "D" -> "d"
    [] c = "M" -> "m" [] c = "S" -> "s" [] OTHER -> c

\* String.prototype.normalize('NFKD'), one character
DecomposeChar(c) == IF c = "e_acute" THEN <<"e", "comb_acute">> ELSE <<c>>

RECURSIVE TrimLeft(_)
TrimLeft(s) ==
  IF s # <<>> /\ IsSpace(Head(s)) THEN TrimLeft(Tail(s)) ELSE s

RECURSIVE TrimRight(_)
TrimRight(s) ==
  IF s # <<>> /\ IsSpace(s[Len(s)]) THEN TrimRight(SubSeq(s, 1, Len(s) - 1)) ELSE s

\* String.prototype.trim
Trim(s) == TrimRight(TrimLeft(s))

RECURSIVE countLetters(_)
\* util.ts countLetters: the matches of /[A-Za-z]/g
countLetters(s) ==
  IF s = <<>> THEN 0
  ELSE (IF IsAsciiLetter(Head(s)) THEN 1 ELSE 0) + countLetters(Tail(s))

RECURSIVE NFKD(_)
NFKD(s) == IF s = <<>> THEN <<>> ELSE DecomposeChar(Head(s)) \o NFKD(Tail(s))

\* What one character that is no letter, number or whitespace is replaced by
\* in .replace(/[^\p{L}\p{N}\s]+/gu, ' ').
PunctReplacement == <<" ">>

IsKept(c) == IsUnicodeLetter(c) \/ IsNumber(c) \/ IsSpace(c)

RECURSIVE ReplacePunct(_, _)
\* .replace(/[^\p{L}\p{N}\s]+/gu, ' '): every maximal run of other characters
\* becomes one replacement; inRun says the previous character was in a run.
ReplacePunct(s, inRun) ==
  IF s = <<>> THEN <<>>
  ELSE IF IsKept(Head(s)) THEN <<Head(s)>> \o ReplacePunct(Tail(s), FALSE)
  ELSE (IF inRun THEN <<>> ELSE PunctReplacement) \o ReplacePunct(Tail(s), TRUE)

RECURSIVE ToLower(_)
ToLower(s) == IF s = <<>> THEN <<>> ELSE <<ToLowerChar(Head(s))>> \o ToLower(Tail(s))

RECURSIVE CollapseSpaces(_, _)
\* .replace(/\s+/g, ' ')
CollapseSpaces(s, inRun) ==
  IF s = <<>> THEN <<>>
  ELSE IF IsSpace(Head(s))
       THEN (IF inRun THEN <<>> ELSE <<" ">>) \o CollapseSpaces(Tail(s), TRUE)
       ELSE <<Head(s)>> \o CollapseSpaces(Tail(s), FALSE)

ErrTooFewLetters == "Each item must contain at least 2 letters."
ErrNotValid == "That item is not valid."

\* normalize.ts normalizeFishbowlText
normalizeFishbowlText(input) ==
  LET displayText == Trim(input)
      noPunct == ReplacePunct(NFKD(displayText), FALSE)
      normalizedText == Trim(CollapseSpaces(ToLower(noPunct), FALSE))
  IN  IF countLetters(displayText) < MinLetters
      THEN [displayText |-> displayText, normalizedText |-> <<>>,
            isValid |-> FALSE, error |-> ErrTooFewLetters]
      ELSE IF Len(normalizedText) = 0
      THEN [displayText |-> displayText, normalizedText |-> <<>>,
            isValid |-> FALSE, error |-> ErrNotValid]
      ELSE [displayText |-> displayText, normalizedText |-> normalizedText,
            isValid |-> TRUE, error |-> NoError]

-----------------------------------------------------------------------------
(* reducer.ts: the state and the helpers of the reducer.                   *)

\* emptyScores
emptyScores == [r \in Rounds |-> [t \in Teams |-> 0]]

NoTeams == [r \in Rounds |-> NoTeam]

\* createNewGameState
createNewGameState ==
  [ screen |-> "hostSetup",
    teams |-> [A |-> "Blue", B |-> "Red"],
    playerCount |-> DefaultPlayerCount,
    timerSettings |-> [round1Seconds |-> DefaultRound1Seconds,
                       round2Seconds |-> DefaultRound2Seconds,
                       round3Seconds |-> DefaultRound3Seconds],
    entryIndex |-> 0,
    startingTeamRound1 |-> NoTeam,
    players |-> <<>>,
    items |-> <<>>,
    currentRound |-> NoRound,
    currentTeamTurn |-> "A",
    roundStartTeam |-> NoTeams,
    roundFinisherTeam |-> NoTeams,
    carryoverForNextRound |-> NoObject,
    pendingCarryoverSecondsThisRound |-> NoSeconds,
    pools |-> NoObject,
    scoresByRound |-> emptyScores,
    turnEndEpochMs |-> NoSeconds,
    turnDurationSeconds |-> NoSeconds,
    timerSecondsRemaining |-> NoSeconds,
    undoStack |-> <<>>,
    events |-> <<>>,
    lastError |-> NoError ]

\* Fault: a setup that stays editable after the game has started.
canEditSetupAlways(s) == TRUE

\* canEditSetup
canEditSetup(s) == s.currentRound = NoRound

\* A GameEvent without its id, ts, wordId, wordText and note.
Event(type, round, team, pointsDelta) ==
  [type |-> type, round |-> round, team |-> team, pointsDelta |-> pointsDelta]

\* Fault: an event log that keeps its newest event only.
addEventKeepsLast(s, evt) == [s EXCEPT !.events = <<evt>>]

\* addEvent
addEvent(s, evt) == [s EXCEPT !.events = Append(s.events, evt)]

\* getDefaultTurnSeconds
getDefaultTurnSeconds(s, round) ==
  CASE round = 1 -> clampInt(s.timerSettings.round1Seconds, TimerSecondsMin, TimerSecondsMax)
    [] round = 2 -> clampInt(s.timerSettings.round2Seconds, TimerSecondsMin, TimerSecondsMax)
    [] round = 3 -> clampInt(s.timerSettings.round3Seconds, TimerSecondsMin, TimerSecondsMax)

\* Fault: the element at j is copied to i and the one at i is lost.
SwapOverwrites(out, i, j) == [out EXCEPT ![i] = out[j]]

\* [out[i], out[j]] = [out[j], out[i]]
Swap(out, i, j) == [out EXCEPT ![i] = out[j], ![j] = out[i]]

\* shuffle.ts randomInt over a random source that returns one of the smallest
\* cap + 1 values of 0 .. maxExclusive - 1 (both branches of the source return
\* a value of that range: x % maxExclusive, floor(random * maxExclusive))
randomIntWithin(maxExclusive, cap) ==
  IF maxExclusive <= 0 THEN {0} ELSE 0..Min(maxExclusive - 1, cap)

\* shuffle.ts randomInt: the values the random source is taken to return
\* while a game is explored, the smallest MaxRandom + 1 of 0 .. maxExclusive - 1
randomInt(maxExclusive) == randomIntWithin(maxExclusive, MaxRandom)

RECURSIVE FisherYatesWithin(_, _, _)
\* The loop of shuffled from index i (1-based) down to 2, with
\* j = randomInt(i) + 1 (in the source, 0-based: j = randomInt(i + 1)).
FisherYatesWithin(out, i, cap) ==
  IF i <= 1 THEN {out}
  ELSE UNION {FisherYatesWithin(Swap(out, i, j0 + 1), i - 1, cap) :
                j0 \in randomIntWithin(i, cap)}

\* The loop under the random source of a game
FisherYates(out, i) == FisherYatesWithin(out, i, MaxRandom)

\* shuffle.ts shuffled: every sequence the shuffle can return
shuffled(arr) == FisherYates(arr, Len(arr))

\* shuffled under an unrestricted random source (cap >= Len(arr) - 1)
shuffledAnyRandom(arr) == FisherYatesWithin(arr, Len(arr), Len(arr))

Pools(primary, deferred, currentItemId) ==
  <<[primary |-> primary, deferred |-> deferred, currentItemId |-> currentItemId]>>

\* ensurePoolsReady
ensurePoolsReady(s) ==
  IF s.currentRound = NoRound THEN {s}
  ELSE IF s.pools # NoObject THEN {s}
  ELSE LET allIds == [i \in 1..Len(s.items) |-> s.items[i].id]
       IN  {[s EXCEPT !.pools = Pools(primary, <<>>, NoItem)] : primary \in shuffled(allIds)}

\* Fault: a draw that takes the passed items first.
DrawPoolsDeferredFirst(p) ==
  IF p.currentItemId # NoItem THEN {p}
  ELSE IF Len(p.deferred) > 0
  THEN {[primary |-> p.primary, deferred |-> Tail(p.deferred),
         currentItemId |-> Head(p.deferred)]}
  ELSE IF Len(p.primary) = 0 THEN {p}
  ELSE {[primary |-> Tail(p.primary), deferred |-> p.deferred,
         currentItemId |-> Head(p.primary)]}

\* drawIfNeeded, on the pools alone: the pools after the draw, one per outcome
\* of the refill's shuffle.
DrawPools(p) ==
  IF p.currentItemId # NoItem THEN {p}
  ELSE LET refill == Len(p.primary) = 0 /\ Len(p.deferred) > 0
           primaries == IF refill THEN shuffled(p.deferred) ELSE {p.primary}
           deferred == IF refill THEN <<>> ELSE p.deferred
       IN  {IF Len(primary) = 0 THEN p
            ELSE [primary |-> Tail(primary), deferred |-> deferred,
                  currentItemId |-> Head(primary)] : primary \in primaries}

\* drawIfNeeded
drawIfNeeded(s) ==
  IF s.currentRound = NoRound THEN {s}
  ELSE IF s.pools = NoObject THEN {s}
  ELSE {[s EXCEPT !.pools = <<p>>] : p \in DrawPools(s.pools[1])}

\* isRoundComplete
isRoundComplete(s) ==
  /\ s.currentRound # NoRound
  /\ s.pools # NoObject
  /\ s.pools[1].currentItemId = NoItem
  /\ Len(s.pools[1].primary) = 0
  /\ Len(s.pools[1].deferred) = 0

\* Fault: remaining seconds that never fall below 1.
RemainingSecondsAtLeastOne(turnEndEpochMs, nowMs) ==
  Max(1, CeilDiv1000(turnEndEpochMs - nowMs))

\* Math.max(0, Math.ceil((turnEndEpochMs - nowMs) / 1000)), NaN for a NaN
\* deadline
RemainingSeconds(turnEndEpochMs, nowMs) ==
  IF turnEndEpochMs = NaN THEN NaN ELSE Max(0, CeilDiv1000(turnEndEpochMs - nowMs))

\* Fault: completeRound that records a carryover after the last round too.
NextCarryoverAnyRound(round, remaining, finisher) ==
  IF remaining > 0 THEN <<[seconds |-> remaining, teamId |-> finisher]>> ELSE NoObject

\* completeRound: the carryover recorded for the next round (remaining > 0
\* is false for NaN)
NextCarryover(round, remaining, finisher) ==
  IF round < LastRound /\ remaining > 0
  THEN <<[seconds |-> remaining, teamId |-> finisher]>>
  ELSE NoObject

\* completeRound
completeRound(s, nowMs) ==
  IF s.currentRound = NoRound THEN s
  ELSE LET round == s.currentRound
           finisher == s.currentTeamTurn
           remaining == IF s.turnEndEpochMs # NoSeconds
                        THEN RemainingSeconds(s.turnEndEpochMs, nowMs)
                        ELSE IF s.timerSecondsRemaining # NoSeconds
                             THEN s.timerSecondsRemaining ELSE 0
           nextState == [s EXCEPT
             !.screen = "roundComplete",
             !.roundFinisherTeam = [s.roundFinisherTeam EXCEPT ![round] = finisher],
             !.carryoverForNextRound = NextCarryover(round, remaining, finisher),
             !.pendingCarryoverSecondsThisRound = NoSeconds,
             !.turnEndEpochMs = NoSeconds,
             !.turnDurationSeconds = NoSeconds,
             !.timerSecondsRemaining = NoSeconds,
             !.undoStack = <<>>,
             !.lastError = NoError]
       IN  addEvent(nextState, Event("ROUND_COMPLETED", round, finisher, 0))

ErrNothingToUndo == "Nothing to undo."

\* Fault: applyUndo that does not restore the scores.
RestoreFromEntryKeepsScores(s, top) ==
  [s EXCEPT !.pools = top.pools,
            !.undoStack = SubSeq(s.undoStack, 1, Len(s.undoStack) - 1),
            !.lastError = NoError]

\* applyUndo: what the popped entry restores
RestoreFromEntry(s, top) ==
  [s EXCEPT !.pools = top.pools,
            !.scoresByRound = top.scoresByRound,
            !.undoStack = SubSeq(s.undoStack, 1, Len(s.undoStack) - 1),
            !.lastError = NoError]

\* Fault: a failed undo that also stops the turn's timer.
applyUndoStopsTimer(s) ==
  IF Len(s.undoStack) = 0
  THEN [s EXCEPT !.lastError = ErrNothingToUndo, !.turnEndEpochMs = NoSeconds]
  ELSE LET top == s.undoStack[Len(s.undoStack)]
       IN  IF s.currentRound = NoRound \/ top.round # s.currentRound
           THEN [s EXCEPT !.lastError = ErrNothingToUndo, !.turnEndEpochMs = NoSeconds]
           ELSE addEvent(RestoreFromEntry(s, top),
                         Event("UNDO", s.currentRound, s.currentTeamTurn,
                               IF top.pointsDelta # 0 THEN -top.pointsDelta ELSE 0))

\* applyUndo
applyUndo(s) ==
  IF Len(s.undoStack) = 0 THEN [s EXCEPT !.lastError = ErrNothingToUndo]
  ELSE LET top == s.undoStack[Len(s.undoStack)]
       IN  IF s.currentRound = NoRound \/ top.round # s.currentRound
           THEN [s EXCEPT !.lastError = ErrNothingToUndo]
           ELSE addEvent(RestoreFromEntry(s, top),
                         Event("UNDO", s.currentRound, s.currentTeamTurn,
                               IF top.pointsDelta # 0 THEN -top.pointsDelta ELSE 0))

\* Fault: an undo stack without its cap.
PushUndoUncapped(undoStack, undoEntry) == Append(undoStack, undoEntry)

\* [...undoStack, undoEntry].slice(-10)
PushUndo(undoStack, undoEntry) ==
  LET all == Append(undoStack, undoEntry)
  IN  IF Len(all) <= UndoStackCap THEN all
      ELSE SubSeq(all, Len(all) - UndoStackCap + 1, Len(all))

\* An UndoEntry without its wordText.
UndoEntry(kind, s, pointsDelta) ==
  [kind |-> kind, round |-> s.currentRound, team |-> s.currentTeamTurn,
   pools |-> s.pools, scoresByRound |-> s.scoresByRound,
   wordId |-> s.pools[1].currentItemId, pointsDelta |-> pointsDelta]

-----------------------------------------------------------------------------
(* reducer.ts gameReducer: one operator per case, from a state to the set  *)
(* of states the case can return.                                          *)

HOST_SET_TEAM_NAME(s, teamId, name) ==
  IF ~canEditSetup(s) THEN {s}
  ELSE {[s EXCEPT !.teams = [s.teams EXCEPT ![teamId] = name]]}

HOST_SET_PLAYER_COUNT(s, playerCount) ==
  IF ~canEditSetup(s) THEN {s}
  ELSE {[s EXCEPT !.playerCount = clampInt(playerCount, PlayerCountMin, PlayerCountMax)]}

HOST_SET_TIMER(s, round, secondsIn) ==
  IF ~canEditSetup(s) THEN {s}
  ELSE LET seconds == clampInt(secondsIn, TimerSecondsMin, TimerSecondsMax)
           t0 == s.timerSettings
           t1 == IF round = 1 THEN [t0 EXCEPT !.round1Seconds = seconds] ELSE t0
           t2 == IF round = 2 THEN [t1 EXCEPT !.round2Seconds = seconds] ELSE t1
           t3 == IF round = 3 THEN [t2 EXCEPT !.round3Seconds = seconds] ELSE t2
       IN  {[s EXCEPT !.timerSettings = t3]}

HOST_START_WORD_ENTRY(s) ==
  IF ~canEditSetup(s) THEN {s}
  ELSE {[s EXCEPT
          !.screen = "wordEntry",
          !.entryIndex = 0,
          !.startingTeamRound1 = NoTeam,
          !.players = <<>>,
          !.items = <<>>,
          !.pools = NoObject,
          !.scoresByRound = emptyScores,
          !.currentRound = NoRound,
          !.currentTeamTurn = "A",
          !.roundStartTeam = NoTeams,
          !.roundFinisherTeam = NoTeams,
          !.carryoverForNextRound = NoObject,
          !.pendingCarryoverSecondsThisRound = NoSeconds,
          !.turnEndEpochMs = NoSeconds,
          !.turnDurationSeconds = NoSeconds,
          !.timerSecondsRemaining = NoSeconds,
          !.undoStack = <<>>,
          !.events = <<>>,
          !.lastError = NoError]}

ErrPlayerName == "Please enter a player name."
ErrItemCount == "Incorrect number of items in fishbowl."

\* Fault: ENTRY_SUBMIT_PLAYER without the look-up of the stored items.
HasExistingTextNever(items, normalizedText) == FALSE

\* normalizedToExistingText.get(normalizedText) is truthy: the map holds, for
\* each normalizedText, the text of the last stored item that has it.
HasExistingText(items, normalizedText) ==
  LET hits == {k \in 1..Len(items) : items[k].normalizedText = normalizedText}
  IN  hits # {} /\ Len(items[CHOOSE k \in hits : \A m \in hits : m <= k].text) > 0

\* The messages of ENTRY_SUBMIT_PLAYER for a duplicate (without the quoted
\* text of the existing entry).
ErrDuplicateExisting(i) == "Item " \o ToString(i) \o " is a duplicate of an existing entry."
ErrDuplicateInEntry(i, prev) == "Item " \o ToString(i) \o " duplicates Item " \o ToString(prev) \o "."

RECURSIVE ValidateItems(_, _, _, _)
\* The loop of ENTRY_SUBMIT_PLAYER over action.items from index i (1-based):
\* the first error, or the new items.
ValidateItems(stored, raws, i, newItems) ==
  IF i > Len(raws) THEN [ok |-> TRUE, error |-> NoError, newItems |-> newItems]
  ELSE LET n == normalizeFishbowlText(raws[i])
           seen == {k \in 1..Len(newItems) : newItems[k].normalizedText = n.normalizedText}
       IN  IF ~n.isValid
           THEN [ok |-> FALSE, error |-> "Item " \o ToString(i) \o ": " \o n.error,
                 newItems |-> <<>>]
           ELSE IF HasExistingText(stored, n.normalizedText)
           THEN [ok |-> FALSE,
                 error |-> ErrDuplicateExisting(i),
                 newItems |-> <<>>]
           ELSE IF seen # {}
           THEN [ok |-> FALSE,
                 error |-> ErrDuplicateInEntry(i, CHOOSE k \in seen : TRUE),
                 newItems |-> <<>>]
           ELSE ValidateItems(stored, raws, i + 1,
                  Append(newItems, [displayText |-> n.displayText,
                                    normalizedText |-> n.normalizedText]))

ENTRY_SUBMIT_PLAYER(s, playerNameIn, teamId, raws) ==
  IF s.screen # "wordEntry" THEN {s}
  ELSE LET playerName == Trim(playerNameIn)
           v == ValidateItems(s.items, raws, 1, <<>>)
           playerId == Len(s.players) + 1
           player == [id |-> playerId, name |-> playerName, teamId |-> teamId,
                      entryIndex |-> s.entryIndex]
           items == [k \in 1..Len(v.newItems) |->
                       [id |-> Len(s.items) + k,
                        text |-> v.newItems[k].displayText,
                        normalizedText |-> v.newItems[k].normalizedText,
                        ownerPlayerId |-> playerId]]
           nextEntryIndex == s.entryIndex + 1
           isDone == nextEntryIndex >= s.playerCount
       IN  IF Len(playerName) = 0 THEN {[s EXCEPT !.lastError = ErrPlayerName]}
           ELSE IF s.entryIndex >= s.playerCount THEN {s}
           ELSE IF ~v.ok THEN {[s EXCEPT !.lastError = v.error]}
           ELSE {[s EXCEPT
                   !.players = Append(s.players, player),
                   !.items = s.items \o items,
                   !.startingTeamRound1 =
                      IF s.startingTeamRound1 # NoTeam THEN s.startingTeamRound1 ELSE teamId,
                   !.entryIndex = nextEntryIndex,
                   !.screen = IF isDone THEN "ready" ELSE "entryHandoff",
                   !.lastError = NoError]}

ENTRY_ACK_HANDOFF(s) ==
  IF s.screen # "entryHandoff" THEN {s}
  ELSE {[s EXCEPT !.screen = "wordEntry", !.lastError = NoError]}

\* Fault: READY_START_ROUND1 that always lets team A start.
READY_START_ROUND1_TeamA(s) ==
  IF s.screen # "ready" THEN {s}
  ELSE IF Len(s.items) # s.playerCount * 3 THEN {[s EXCEPT !.lastError = ErrItemCount]}
  ELSE LET startTeam == "A"
           nextState == [s EXCEPT
             !.currentRound = 1,
             !.currentTeamTurn = startTeam,
             !.roundStartTeam = [s.roundStartTeam EXCEPT ![1] = startTeam],
             !.carryoverForNextRound = NoObject,
             !.pendingCarryoverSecondsThisRound = NoSeconds,
             !.pools = NoObject,
             !.turnEndEpochMs = NoSeconds,
             !.turnDurationSeconds = NoSeconds,
             !.timerSecondsRemaining = NoSeconds,
             !.undoStack = <<>>,
             !.screen = "turnHandoff",
             !.lastError = NoError]
       IN  {addEvent(s1, Event("ROUND_STARTED", 1, startTeam, 0)) :
              s1 \in ensurePoolsReady(nextState)}

READY_START_ROUND1(s) ==
  IF s.screen # "ready" THEN {s}
  ELSE IF Len(s.items) # s.playerCount * 3 THEN {[s EXCEPT !.lastError = ErrItemCount]}
  ELSE LET startTeam == IF s.startingTeamRound1 # NoTeam THEN s.startingTeamRound1 ELSE "A"
           nextState == [s EXCEPT
             !.currentRound = 1,
             !.currentTeamTurn = startTeam,
             !.roundStartTeam = [s.roundStartTeam EXCEPT ![1] = startTeam],
             !.carryoverForNextRound = NoObject,
             !.pendingCarryoverSecondsThisRound = NoSeconds,
             !.pools = NoObject,
             !.turnEndEpochMs = NoSeconds,
             !.turnDurationSeconds = NoSeconds,
             !.timerSecondsRemaining = NoSeconds,
             !.undoStack = <<>>,
             !.screen = "turnHandoff",
             !.lastError = NoError]
       IN  {addEvent(s1, Event("ROUND_STARTED", 1, startTeam, 0)) :
              s1 \in ensurePoolsReady(nextState)}

\* Fault: HANDOFF_ACK without its screen guard.
HANDOFF_ACK_Unguarded(s) == {[s EXCEPT !.screen = "turnStart", !.lastError = NoError]}

HANDOFF_ACK(s) ==
  IF s.screen # "turnHandoff" THEN {s}
  ELSE {[s EXCEPT !.screen = "turnStart", !.lastError = NoError]}

\* TURN_START: the duration of the turn that starts
TurnDuration(s) ==
  IF s.pendingCarryoverSecondsThisRound # NoSeconds /\ s.pendingCarryoverSecondsThisRound > 0
  THEN s.pendingCarryoverSecondsThisRound
  ELSE getDefaultTurnSeconds(s, s.currentRound)

\* Fault: TURN_START that does not consume the pending carryover.
StartTurnKeepsCarry(s, nowMs) ==
  IF isRoundComplete(s) THEN completeRound(s, nowMs)
  ELSE LET durationSeconds == TurnDuration(s)
           nextState == [s EXCEPT
             !.screen = "turnActive",
             !.turnDurationSeconds = durationSeconds,
             !.turnEndEpochMs = nowMs + durationSeconds * 1000,
             !.timerSecondsRemaining = durationSeconds,
             !.undoStack = <<>>,
             !.lastError = NoError]
       IN  addEvent(nextState, Event("TURN_STARTED", s.currentRound, s.currentTeamTurn, 0))

\* TURN_START, once the pools are ready and the item drawn
StartTurn(s, nowMs) ==
  IF isRoundComplete(s) THEN completeRound(s, nowMs)
  ELSE LET durationSeconds == TurnDuration(s)
           nextState == [s EXCEPT
             !.screen = "turnActive",
             !.turnDurationSeconds = durationSeconds,
             !.turnEndEpochMs = IF durationSeconds = NaN THEN NaN
                                ELSE nowMs + durationSeconds * 1000,
             !.timerSecondsRemaining = durationSeconds,
             !.undoStack = <<>>,
             !.pendingCarryoverSecondsThisRound = NoSeconds,
             !.lastError = NoError]
       IN  addEvent(nextState, Event("TURN_STARTED", s.currentRound, s.currentTeamTurn, 0))

TURN_START(s, nowMs) ==
  IF s.screen # "turnStart" THEN {s}
  ELSE IF s.currentRound = NoRound THEN {s}
  ELSE {StartTurn(s2, nowMs) : s2 \in UNION {drawIfNeeded(s1) : s1 \in ensurePoolsReady(s)}}

\* Fault: a time-up that discards the presented item.
TimeUpPoolsDiscards(p) == {[p EXCEPT !.currentItemId = NoItem]}

\* TURN_SYNC_TIMER at time-up: the presented item goes back into primary
TimeUpPools(p) ==
  IF p.currentItemId # NoItem
  THEN {[p EXCEPT !.primary = primary, !.currentItemId = NoItem] :
          primary \in shuffled(Append(p.primary, p.currentItemId))}
  ELSE {p}

\* Fault: a tick that counts one second down, whatever the clock says.
TURN_SYNC_TIMER_Decrements(s, nowMs) ==
  IF s.screen # "turnActive" \/ s.turnEndEpochMs = NoSeconds THEN {s}
  ELSE IF s.timerSecondsRemaining > 1
       THEN {[s EXCEPT !.timerSecondsRemaining = @ - 1]}
       ELSE {addEvent([s EXCEPT
                        !.screen = "timeUp",
                        !.timerSecondsRemaining = 0,
                        !.turnEndEpochMs = NoSeconds,
                        !.turnDurationSeconds = NoSeconds,
                        !.undoStack = <<>>,
                        !.lastError = NoError,
                        !.pools = np],
                      Event("TIME_UP", s.currentRound, s.currentTeamTurn, 0)) :
               np \in IF s.pools # NoObject
                      THEN {<<p>> : p \in TimeUpPools(s.pools[1])} ELSE {s.pools}}

\* Fault: a time-up that leaves the undo stack in place.
TURN_SYNC_TIMER_KeepsUndo(s, nowMs) ==
  IF s.screen # "turnActive" THEN {s}
  ELSE IF s.turnEndEpochMs = NoSeconds \/ s.turnEndEpochMs = 0 THEN {s}
  ELSE LET remaining == RemainingSeconds(s.turnEndEpochMs, nowMs)
           nextPools == IF s.pools # NoObject
                        THEN {<<p>> : p \in TimeUpPools(s.pools[1])} ELSE {s.pools}
       IN  IF remaining = s.timerSecondsRemaining THEN {s}
           ELSE IF remaining > 0 THEN {[s EXCEPT !.timerSecondsRemaining = remaining]}
           ELSE {addEvent([s EXCEPT
                            !.screen = "timeUp",
                            !.timerSecondsRemaining = 0,
                            !.turnEndEpochMs = NoSeconds,
                            !.turnDurationSeconds = NoSeconds,
                            !.lastError = NoError,
                            !.pools = np],
                          Event("TIME_UP", s.currentRound, s.currentTeamTurn, 0)) :
                   np \in nextPools}

TURN_SYNC_TIMER(s, nowMs) ==
  IF s.screen # "turnActive" THEN {s}
  ELSE IF s.turnEndEpochMs \in {NoSeconds, 0, NaN} THEN {s}
  ELSE LET remaining == RemainingSeconds(s.turnEndEpochMs, nowMs)
           nextPools == IF s.pools # NoObject
                        THEN {<<p>> : p \in TimeUpPools(s.pools[1])} ELSE {s.pools}
       IN  IF remaining = s.timerSecondsRemaining THEN {s}
           ELSE IF remaining > 0 THEN {[s EXCEPT !.timerSecondsRemaining = remaining]}
           ELSE {addEvent([s EXCEPT
                            !.screen = "timeUp",
                            !.timerSecondsRemaining = 0,
                            !.turnEndEpochMs = NoSeconds,
                            !.turnDurationSeconds = NoSeconds,
                            !.undoStack = <<>>,
                            !.lastError = NoError,
                            !.pools = np],
                          Event("TIME_UP", s.currentRound, s.currentTeamTurn, 0)) :
                   np \in nextPools}

\* Fault: TURN_PASSED that puts the item back at the head of primary.
PassedPoolsRequeues(p) ==
  [primary |-> <<p.currentItemId>> \o p.primary, deferred |-> p.deferred,
   currentItemId |-> NoItem]

\* TURN_PASSED: the pools before the next draw
PassedPools(p) ==
  [primary |-> p.primary, deferred |-> Append(p.deferred, p.currentItemId),
   currentItemId |-> NoItem]

TURN_PASSED(s) ==
  IF s.screen # "turnActive" THEN {s}
  ELSE IF s.currentRound = NoRound \/ s.pools = NoObject THEN {s}
  ELSE IF s.pools[1].currentItemId = NoItem THEN {s}
  ELSE LET nextState == [s EXCEPT
             !.pools = <<PassedPools(s.pools[1])>>,
             !.undoStack = PushUndo(s.undoStack, UndoEntry("WORD_PASSED", s, 0)),
             !.lastError = NoError]
       IN  {addEvent(s1, Event("WORD_PASSED", s.currentRound, s.currentTeamTurn, 0)) :
              s1 \in drawIfNeeded(nextState)}

\* Fault: TURN_GUESSED that keeps the guessed item in play.
GuessedPoolsKeepsItem(p) ==
  [primary |-> p.primary, deferred |-> Append(p.deferred, p.currentItemId),
   currentItemId |-> NoItem]

\* TURN_GUESSED: the pools before the next draw
GuessedPools(p) ==
  [primary |-> p.primary, deferred |-> p.deferred, currentItemId |-> NoItem]

\* Fault: a guess that scores for both teams.
AddPointBothTeams(scores, round, team) ==
  [scores EXCEPT ![round] = [t \in Teams |-> @[t] + 1]]

\* TURN_GUESSED: scoresByRound[round][team] += 1
AddPoint(scores, round, team) == [scores EXCEPT ![round][team] = @ + 1]

\* Fault: TURN_GUESSED that never completes the round.
TURN_GUESSED_NoCompletion(s, nowMs) ==
  IF s.screen # "turnActive" THEN {s}
  ELSE IF s.currentRound = NoRound \/ s.pools = NoObject THEN {s}
  ELSE IF s.pools[1].currentItemId = NoItem THEN {s}
  ELSE LET nextState == [s EXCEPT
             !.scoresByRound = AddPoint(s.scoresByRound, s.currentRound, s.currentTeamTurn),
             !.pools = <<GuessedPools(s.pools[1])>>,
             !.undoStack = PushUndo(s.undoStack, UndoEntry("WORD_GUESSED", s, 1)),
             !.lastError = NoError]
       IN  {addEvent(s1, Event("WORD_GUESSED", s.currentRound, s.currentTeamTurn, 1)) :
              s1 \in drawIfNeeded(nextState)}

TURN_GUESSED(s, nowMs) ==
  IF s.screen # "turnActive" THEN {s}
  ELSE IF s.currentRound = NoRound \/ s.pools = NoObject THEN {s}
  ELSE IF s.pools[1].currentItemId = NoItem THEN {s}
  ELSE LET nextState == [s EXCEPT
             !.scoresByRound = AddPoint(s.scoresByRound, s.currentRound, s.currentTeamTurn),
             !.pools = <<GuessedPools(s.pools[1])>>,
             !.undoStack = PushUndo(s.undoStack, UndoEntry("WORD_GUESSED", s, 1)),
             !.lastError = NoError]
           logged(s1) == addEvent(s1, Event("WORD_GUESSED", s.currentRound, s.currentTeamTurn, 1))
       IN  {IF isRoundComplete(logged(s1)) THEN completeRound(logged(s1), nowMs)
            ELSE logged(s1) : s1 \in drawIfNeeded(nextState)}

TURN_UNDO(s) ==
  IF s.screen # "turnActive" THEN {s}
  ELSE {applyUndo(s)}

\* Fault: TIME_UP_ACK that skips the hand-off screen.
TIME_UP_ACK_SkipsHandoff(s) ==
  IF s.screen # "timeUp" THEN {s}
  ELSE {[s EXCEPT !.screen = "turnStart",
                  !.currentTeamTurn = otherTeam(s.currentTeamTurn),
                  !.lastError = NoError]}

\* Fault: TIME_UP_ACK that leaves the turn with the same team.
TIME_UP_ACK_SameTeam(s) ==
  IF s.screen # "timeUp" THEN {s}
  ELSE {[s EXCEPT !.screen = "turnHandoff", !.lastError = NoError]}

TIME_UP_ACK(s) ==
  IF s.screen # "timeUp" THEN {s}
  ELSE {[s EXCEPT !.screen = "turnHandoff",
                  !.currentTeamTurn = otherTeam(s.currentTeamTurn),
                  !.lastError = NoError]}

\* ROUND_PROCEED: the carryover seconds handed to the next round's first turn
PendingCarry(carry, starter) ==
  IF carry # NoObject /\ carry[1].teamId = starter /\ carry[1].seconds > 0
  THEN carry[1].seconds ELSE NoSeconds

\* Fault: ROUND_PROCEED that lets the other team start the next round.
ROUND_PROCEED_OtherStarts(s) ==
  IF s.screen # "roundComplete" THEN {s}
  ELSE IF s.currentRound = NoRound THEN {s}
  ELSE IF s.currentRound = LastRound
  THEN {[s EXCEPT !.screen = "final", !.lastError = NoError]}
  ELSE LET round == s.currentRound
           nextRound == round + 1
           starter == IF s.roundFinisherTeam[round] # NoTeam
                      THEN otherTeam(s.roundFinisherTeam[round]) ELSE s.currentTeamTurn
           nextState == [s EXCEPT
             !.currentRound = nextRound,
             !.currentTeamTurn = starter,
             !.roundStartTeam = [s.roundStartTeam EXCEPT ![nextRound] = starter],
             !.carryoverForNextRound = NoObject,
             !.pendingCarryoverSecondsThisRound = PendingCarry(s.carryoverForNextRound, starter),
             !.pools = NoObject,
             !.turnEndEpochMs = NoSeconds,
             !.turnDurationSeconds = NoSeconds,
             !.timerSecondsRemaining = NoSeconds,
             !.undoStack = <<>>,
             !.screen = "turnHandoff",
             !.lastError = NoError]
       IN  {addEvent(s1, Event("ROUND_STARTED", nextRound, starter, 0)) :
              s1 \in ensurePoolsReady(nextState)}

ROUND_PROCEED(s) ==
  IF s.screen # "roundComplete" THEN {s}
  ELSE IF s.currentRound = NoRound THEN {s}
  ELSE IF s.currentRound = LastRound
  THEN {[s EXCEPT !.screen = "final", !.lastError = NoError]}
  ELSE LET round == s.currentRound
           nextRound == round + 1
           starter == IF s.roundFinisherTeam[round] # NoTeam
                      THEN s.roundFinisherTeam[round] ELSE s.currentTeamTurn
           nextState == [s EXCEPT
             !.currentRound = nextRound,
             !.currentTeamTurn = starter,
             !.roundStartTeam = [s.roundStartTeam EXCEPT ![nextRound] = starter],
             !.carryoverForNextRound = NoObject,
             !.pendingCarryoverSecondsThisRound = PendingCarry(s.carryoverForNextRound, starter),
             !.pools = NoObject,
             !.turnEndEpochMs = NoSeconds,
             !.turnDurationSeconds = NoSeconds,
             !.timerSecondsRemaining = NoSeconds,
             !.undoStack = <<>>,
             !.screen = "turnHandoff",
             !.lastError = NoError]
       IN  {addEvent(s1, Event("ROUND_STARTED", nextRound, starter, 0)) :
              s1 \in ensurePoolsReady(nextState)}

\* Fault: HOST_RESTART_ROUND that resets the scores of every round.
HOST_RESTART_ROUND_AllScores(s) ==
  IF s.screen = "turnActive" THEN {s}
  ELSE IF s.currentRound = NoRound THEN {s}
  ELSE LET round == s.currentRound
           starter == IF s.roundStartTeam[round] # NoTeam
                      THEN s.roundStartTeam[round] ELSE s.currentTeamTurn
           nextState == [s EXCEPT
             !.scoresByRound = emptyScores,
             !.currentTeamTurn = starter,
             !.carryoverForNextRound = NoObject,
             !.pendingCarryoverSecondsThisRound = NoSeconds,
             !.pools = NoObject,
             !.turnEndEpochMs = NoSeconds,
             !.turnDurationSeconds = NoSeconds,
             !.timerSecondsRemaining = NoSeconds,
             !.undoStack = <<>>,
             !.screen = "turnHandoff",
             !.lastError = NoError]
       IN  ensurePoolsReady(nextState)

HOST_RESTART_ROUND(s) ==
  IF s.screen = "turnActive" THEN {s}
  ELSE IF s.currentRound = NoRound THEN {s}
  ELSE LET round == s.currentRound
           starter == IF s.roundStartTeam[round] # NoTeam
                      THEN s.roundStartTeam[round] ELSE s.currentTeamTurn
           nextState == [s EXCEPT
             !.scoresByRound = [s.scoresByRound EXCEPT ![round] = [t \in Teams |-> 0]],
             !.currentTeamTurn = starter,
             !.carryoverForNextRound = NoObject,
             !.pendingCarryoverSecondsThisRound = NoSeconds,
             !.pools = NoObject,
             !.turnEndEpochMs = NoSeconds,
             !.turnDurationSeconds = NoSeconds,
             !.timerSecondsRemaining = NoSeconds,
             !.undoStack = <<>>,
             !.screen = "turnHandoff",
             !.lastError = NoError]
       IN  ensurePoolsReady(nextState)

\* Fault: HOST_RESTART_GAME that keeps the host's setup.
HOST_RESTART_GAME_KeepsSetup(s) ==
  {[createNewGameState EXCEPT !.teams = s.teams, !.playerCount = s.playerCount,
                              !.timerSettings = s.timerSettings]}

HOST_RESTART_GAME(s) == {createNewGameState}

-----------------------------------------------------------------------------
(* storage: the saved game.                                                *)

\* Fault: a finished game that still counts as in progress.
isInProgressGameAtFinal(s) ==
  s.currentRound # NoRound \/ Len(s.players) > 0 \/ Len(s.items) > 0

\* isInProgressGame
isInProgressGame(s) ==
  IF s.currentRound # NoRound THEN s.screen # "final"
  ELSE IF Len(s.players) > 0 THEN TRUE
  ELSE IF Len(s.items) > 0 THEN TRUE
  ELSE FALSE

\* The saved game: what IndexedDB and localStorage hold under the key (a
\* payload with the state, savedAt is not modelled), the saveGame and
\* clearSavedGame calls that have been started and have not completed, oldest
\* first, and how many IndexedDB requests have failed.
EmptyStorage == [idb |-> NoObject, ls |-> NoObject, pending |-> <<>>, failures |-> 0]

\* App.tsx, the persistence effect, run after the state has become s: the
\* call is started and not awaited
PersistEffect(st, s) ==
  [st EXCEPT !.pending =
     Append(@, IF ~isInProgressGame(s) THEN [op |-> "clear", payload |-> NoObject]
               ELSE [op |-> "save", payload |-> <<s>>])]

\* saveGame once its await is over: idbSet has stored the payload, or it has
\* thrown and the payload goes to localStorage
saveGame(st, payload, idbOk) ==
  IF idbOk THEN [st EXCEPT !.idb = payload] ELSE [st EXCEPT !.ls = payload]

\* clearSavedGame once its await is over: idbDel has deleted the key, or it
\* has thrown; lsDel follows either way
clearSavedGame(st, idbOk) ==
  IF idbOk THEN [st EXCEPT !.idb = NoObject, !.ls = NoObject]
  ELSE [st EXCEPT !.ls = NoObject]

\* loadSavedGame: what IndexedDB holds, which may be nothing; localStorage
\* is read only when idbGet throws
loadSavedGame(st, idbOk) == IF idbOk THEN st.idb ELSE st.ls

-----------------------------------------------------------------------------
(* The specification: the App dispatches one action at a time to the       *)
(* reducer (App.tsx dispatch); the wall clock advances by itself.          *)
(* guessedIds and passedFresh are history variables: the items guessed in  *)
(* the current round whose guess was not undone, and the items passed      *)
(* whose pass stands (not undone, pools not rebuilt) and since whose pass  *)
(* primary has not been empty.  restarts counts HOST_RESTART_ROUND.        *)
(* lastFinish is the round, the seconds left and the team of the last      *)
(* guess that completed a round, until the next turn starts.               *)
(* turnSnapshots holds, for each TURN_PASSED and TURN_GUESSED of the       *)
(* running turn that no TURN_UNDO has taken back, the pools and the scores *)
(* just before it, oldest first (without the cap of the undo stack).       *)
(* restartMarks holds the length the event log had at each                 *)
(* HOST_RESTART_ROUND of the game (the reducer logs no event for it).      *)
(* storage is the saved game and the storage calls in flight (not a       *)
(* history variable: IndexedDB, localStorage and the pending promises).     *)

\* What the host and the players type in.
NameAnn == <<"A", "n", "n">>
NameBob == <<"B", "o", "b">>
NameBlank == <<" ">>
ItemsAnn == << <<"a", "b">>, <<"c", "d">>, <<"e", "f">> >>
ItemsBob == << <<"g", "h">>, <<"i", "j">>, <<"k", "l">> >>
ItemsDupInside == << <<"m", "n">>, <<"M", "n", " ">>, <<"o", "p">> >>
ItemsShort == << <<"m", "n">>, <<"o", "1">>, <<"o", "p">> >>

Submission(playerName, teamId, items) ==
  [playerName |-> playerName, teamId |-> teamId, items |-> items]

\* "Spider-Man", "Spiderman", "spider man"
SpiderMan == <<"S", "p", "i", "d", "e", "r", "-", "M", "a", "n">>
Spiderman == <<"S", "p", "i", "d", "e", "r", "m", "a", "n">>
SpiderSpaceMan == <<"s", "p", "i", "d", "e", "r", " ", "m", "a", "n">>

\* The texts a player types as first, second and third item (SpecEntry)
EntryFirst == {SpiderMan, Spiderman}
EntrySecond == {SpiderSpaceMan, <<"a", "b">>, <<"c", "1">>, <<"g", "h">>}
EntryThird == {<<"a", "-", "b">>, <<"A", "B">>, <<"e", "f">>, <<" ", "C", " ", " ", "d", " ">>}

\* What a player types in (SpecEntry)
EntrySubmissions ==
  {Submission(NameAnn, t, <<x, y, z>>) :
     t \in Teams, x \in EntryFirst, y \in EntrySecond, z \in EntryThird}
  \cup {Submission(NameBlank, "A", ItemsAnn)}
EntryTeamNames == {<<"A", "Reds">>}
EntryPlayerCounts == {2}
EntryTimers == {<<2, 4>>}

\* What the player at entry index i types in (Spec, SpecRound1).
PlaySubmissions(i) ==
  IF i = 0
  THEN { Submission(NameAnn, "A", ItemsAnn), Submission(NameBlank, "A", ItemsAnn) }
  ELSE { Submission(NameBob, "B", ItemsBob), Submission(NameBob, "B", ItemsDupInside),
         Submission(NameBob, "B", ItemsShort), Submission(NameBob, "B", ItemsAnn) }
\* The host's "default names" button
PlayTeamNames == {<<"A", "Blue">>, <<"B", "Red">>}
PlayPlayerCounts == {1, 2}
PlayTimers == {<<1, 30>>}

\* What the players may do beyond guessing every item in turn: how many
\* passes, undos, time-ups and round restarts, how many of them together,
\* and with how many of them behind it the game goes on to the next round.
Budget(passes, undos, timeUps, roundRestarts, extras, carried) ==
  [passes |-> passes, undos |-> undos, timeUps |-> timeUps,
   roundRestarts |-> roundRestarts, extras |-> extras, carried |-> carried]

GameBudget ==
  Budget(MaxPasses, MaxUndos, MaxTimeUps, MaxRoundRestarts, MaxExtras, MaxCarriedExtras)
Round1Budget ==
  Budget(MaxPasses, MaxUndos, MaxTimeUps, MaxRoundRestarts, MaxRound1Extras, MaxCarriedExtras)

CountEvents(s, type) == Cardinality({i \in 1..Len(s.events) : s.events[i].type = type})

Extras == CountEvents(state, "WORD_PASSED") + CountEvents(state, "UNDO")
            + CountEvents(state, "TIME_UP") + restarts

CanPass(b) == CountEvents(state, "WORD_PASSED") < b.passes /\ Extras < b.extras
CanUndo(b) == CountEvents(state, "UNDO") < b.undos /\ Extras < b.extras
CanTimeUp(b) == CountEvents(state, "TIME_UP") < b.timeUps /\ Extras < b.extras
CanRestartRound(b) == restarts < b.roundRestarts /\ Extras < b.extras
CanProceed(b) == Extras <= b.carried

PrimaryOf(s) == IF s.pools = NoObject THEN <<>> ELSE s.pools[1].primary

\* passedFresh after a step to s1 in which primary was primaryAtDraw when the
\* next item was drawn
Fresh(set, primaryAtDraw, s1) ==
  IF primaryAtDraw = <<>> \/ PrimaryOf(s1) = <<>> THEN {} ELSE set

NoFinish == [round |-> NoRound, seconds |-> 0, team |-> NoTeam]

Init ==
  /\ state = createNewGameState
  /\ now = ClockStartMs
  /\ guessedIds = {}
  /\ passedFresh = {}
  /\ restarts = 0
  /\ restartMarks = {}
  /\ lastFinish = NoFinish
  /\ turnSnapshots = <<>>
  /\ storage = PersistEffect(EmptyStorage, createNewGameState)

\* The clock reading after a step of the reducer: kept while a turn runs,
\* re-based once no deadline is pending.
Rebase == now' = IF state'.turnEndEpochMs = NoSeconds THEN ClockStartMs ELSE now

\* The pools and the scores a TURN_UNDO would have to bring back
Snapshot(s) == [pools |-> s.pools, scoresByRound |-> s.scoresByRound]

\* turnSnapshots after a step that is no TURN_PASSED, TURN_GUESSED or TURN_UNDO
KeepSnapshots ==
  turnSnapshots' = IF state'.screen = "turnActive" /\ state.screen = "turnActive"
                   THEN turnSnapshots ELSE <<>>

\* turnSnapshots after a TURN_PASSED or TURN_GUESSED
PushSnapshot ==
  turnSnapshots' = IF state' = state THEN turnSnapshots
                   ELSE IF state'.screen = "turnActive"
                   THEN Append(turnSnapshots, Snapshot(state)) ELSE <<>>

\* A step of the reducer that touches no pool
Plain(next) ==
  /\ state' \in next
  /\ Rebase
  /\ KeepSnapshots
  /\ UNCHANGED <<guessedIds, passedFresh, restarts, lastFinish, restartMarks, storage>>

\* A step of the reducer that may rebuild or drop the pools
Rebuild(next) ==
  /\ state' \in next
  /\ guessedIds' = IF state'.pools = state.pools THEN guessedIds ELSE {}
  /\ passedFresh' = IF state'.pools = state.pools THEN passedFresh ELSE {}
  /\ Rebase
  /\ KeepSnapshots

HostSetTeamName(names) ==
  \E n \in names : Plain(HOST_SET_TEAM_NAME(state, n[1], n[2]))

HostSetPlayerCount(counts) ==
  \E n \in counts : Plain(HOST_SET_PLAYER_COUNT(state, n))

HostSetTimer(timers) ==
  \E t \in timers : Plain(HOST_SET_TIMER(state, t[1], t[2]))

HostStartWordEntry ==
  /\ Rebuild(HOST_START_WORD_ENTRY(state))
  /\ restarts' = IF state' = state THEN restarts ELSE 0
  /\ restartMarks' = IF state' = state THEN restartMarks ELSE {}
  /\ UNCHANGED storage
  /\ lastFinish' = IF state' = state THEN lastFinish ELSE NoFinish

EntrySubmitPlayer(submissions) ==
  \E a \in submissions :
    Plain(ENTRY_SUBMIT_PLAYER(state, a.playerName, a.teamId, a.items))

EntryAckHandoff == Plain(ENTRY_ACK_HANDOFF(state))

ReadyStartRound1 ==
  /\ Rebuild(READY_START_ROUND1(state))
  /\ lastFinish' = IF state' = state THEN lastFinish ELSE NoFinish
  /\ UNCHANGED <<restarts, restartMarks, storage>>

HandoffAck == Plain(HANDOFF_ACK(state))

TurnStart ==
  /\ state' \in TURN_START(state, now)
  /\ passedFresh' = IF state' = state THEN passedFresh
                    ELSE Fresh(passedFresh, PrimaryOf(state), state')
  /\ lastFinish' = IF state' = state THEN lastFinish ELSE NoFinish
  /\ Rebase
  /\ KeepSnapshots
  /\ UNCHANGED <<guessedIds, restarts, restartMarks, storage>>

TurnSyncTimer(b) ==
  /\ state.screen = "turnActive" /\ RemainingSeconds(state.turnEndEpochMs, now) = 0
       => CanTimeUp(b)
  /\ Plain(TURN_SYNC_TIMER(state, now))

TurnPassed(b) ==
  /\ state.screen = "turnActive" => CanPass(b)
  /\ state' \in TURN_PASSED(state)
  /\ passedFresh' = IF state' = state THEN passedFresh
                    ELSE Fresh(passedFresh \cup {state.pools[1].currentItemId},
                               PrimaryOf(state), state')
  /\ Rebase
  /\ PushSnapshot
  /\ UNCHANGED <<guessedIds, restarts, lastFinish, restartMarks, storage>>

TurnGuessed ==
  /\ state' \in TURN_GUESSED(state, now)
  /\ guessedIds' = IF state' = state THEN guessedIds
                   ELSE guessedIds \cup {state.pools[1].currentItemId}
  /\ passedFresh' = IF state' = state THEN passedFresh
                    ELSE Fresh(passedFresh, PrimaryOf(state), state')
  /\ lastFinish' = IF state.screen = "turnActive" /\ state'.screen = "roundComplete"
                   THEN [round |-> state.currentRound,
                         seconds |-> IF state.turnEndEpochMs > now
                                     THEN (state.turnEndEpochMs - now + 999) \div 1000
                                     ELSE 0,
                         team |-> state.currentTeamTurn]
                   ELSE lastFinish
  /\ Rebase
  /\ PushSnapshot
  /\ UNCHANGED <<restarts, restartMarks, storage>>

TurnUndo(b) ==
  /\ state.screen = "turnActive" /\ Len(state.undoStack) > 0 => CanUndo(b)
  /\ state' \in TURN_UNDO(state)
  /\ LET undone == Len(state'.events) > Len(state.events)
         top == state.undoStack[Len(state.undoStack)]
     IN  /\ guessedIds' = IF undone /\ top.kind = "WORD_GUESSED"
                          THEN guessedIds \ {top.wordId} ELSE guessedIds
         /\ passedFresh' = IF undone
                           THEN Fresh(IF top.kind = "WORD_PASSED"
                                      THEN passedFresh \ {top.wordId} ELSE passedFresh,
                                      PrimaryOf(state'), state')
                           ELSE passedFresh
         /\ turnSnapshots' = IF undone
                             THEN SubSeq(turnSnapshots, 1, Len(turnSnapshots) - 1)
                             ELSE turnSnapshots
  /\ Rebase
  /\ UNCHANGED <<restarts, lastFinish, restartMarks, storage>>

TimeUpAck == Plain(TIME_UP_ACK(state))

RoundProceed(b) ==
  /\ state.screen = "roundComplete" /\ state.currentRound # LastRound => CanProceed(b)
  /\ Rebuild(ROUND_PROCEED(state))
  /\ UNCHANGED <<restarts, lastFinish, restartMarks, storage>>

HostRestartRound(b) ==
  /\ state.screen # "turnActive" /\ state.currentRound # NoRound => CanRestartRound(b)
  /\ Rebuild(HOST_RESTART_ROUND(state))
  /\ restarts' = IF state.screen # "turnActive" /\ state.currentRound # NoRound
                 THEN restarts + 1 ELSE restarts
  /\ restartMarks' = IF state.screen # "turnActive" /\ state.currentRound # NoRound
                     THEN restartMarks \cup {Len(state.events)} ELSE restartMarks
  /\ UNCHANGED storage
  /\ UNCHANGED lastFinish

HostRestartGame ==
  /\ state' \in HOST_RESTART_GAME(state)
  /\ guessedIds' = {}
  /\ passedFresh' = {}
  /\ restarts' = 0
  /\ restartMarks' = {}
  /\ UNCHANGED storage
  /\ lastFinish' = NoFinish
  /\ turnSnapshots' = <<>>
  /\ Rebase

\* Date.now() moves on while a turn runs (the only time the reducer's result
\* depends on it).
ClockAdvance ==
  /\ state.screen = "turnActive"
  /\ state.turnEndEpochMs # NoSeconds /\ now < state.turnEndEpochMs
  /\ now' = now + ClockStepMs
  /\ UNCHANGED <<state, guessedIds, passedFresh, restarts, lastFinish, turnSnapshots,
                 restartMarks, storage>>

\* Every action of the reducer but ROUND_PROCEED, the players keeping to
\* budget b.
PlayRound(b) ==
  \/ HostSetTeamName(PlayTeamNames)
  \/ HostSetPlayerCount(PlayPlayerCounts)
  \/ HostSetTimer(PlayTimers)
  \/ HostStartWordEntry
  \/ EntrySubmitPlayer(PlaySubmissions(state.entryIndex))
  \/ EntryAckHandoff
  \/ ReadyStartRound1
  \/ HandoffAck
  \/ TurnStart
  \/ TurnSyncTimer(b)
  \/ TurnPassed(b)
  \/ TurnGuessed
  \/ TurnUndo(b)
  \/ TimeUpAck
  \/ HostRestartRound(b)
  \/ HostRestartGame
  \/ ClockAdvance

Next == PlayRound(GameBudget) \/ RoundProceed(GameBudget)

\* Whole games of three rounds.
Spec == Init /\ [][Next]_vars

NextRound1 == PlayRound(Round1Budget)

\* Games that stay in round 1, with more passes, undos, time-ups and restarts.
SpecRound1 == Init /\ [][NextRound1]_vars

\* Setup and word entry alone, with texts that differ in case, whitespace and
\* punctuation.
NextEntry ==
  \/ HostSetTeamName(EntryTeamNames)
  \/ HostSetPlayerCount(EntryPlayerCounts)
  \/ HostSetTimer(EntryTimers)
  \/ HostStartWordEntry
  \/ EntrySubmitPlayer(EntrySubmissions)
  \/ EntryAckHandoff
  \/ HostRestartGame

SpecEntry == Init /\ [][NextEntry]_vars

\* What the player at entry index i types in (SpecTurn).
TurnSubmissions(i) ==
  IF i = 0 THEN {Submission(NameAnn, "A", ItemsAnn)} ELSE {Submission(NameBob, "B", ItemsBob)}

TurnPlayerCounts == {2}

TurnBudget == Budget(MaxTurnActions, MaxTurnActions, 0, 0, 2 * MaxTurnActions, 0)

\* The passes and guesses so far
TurnActions == CountEvents(state, "WORD_PASSED") + CountEvents(state, "WORD_GUESSED")

\* The players pass and guess first and take back afterwards.
LongTurnPassed ==
  /\ CountEvents(state, "UNDO") = 0 /\ TurnActions < MaxTurnActions
  /\ TurnPassed(TurnBudget)

LongTurnGuessed ==
  /\ CountEvents(state, "UNDO") = 0 /\ TurnActions < MaxTurnActions
  /\ CountEvents(state, "WORD_GUESSED") < MaxTurnGuesses
  /\ TurnGuessed

NextTurn ==
  \/ HostSetPlayerCount(TurnPlayerCounts)
  \/ HostStartWordEntry
  \/ EntrySubmitPlayer(TurnSubmissions(state.entryIndex))
  \/ EntryAckHandoff
  \/ ReadyStartRound1
  \/ HandoffAck
  \/ TurnStart
  \/ LongTurnPassed
  \/ LongTurnGuessed
  \/ TurnUndo(TurnBudget)

\* One long first turn: up to MaxTurnActions passes and guesses, then undos.
SpecTurn == Init /\ [][NextTurn]_vars

\* What the host and the player at entry index i type in (SpecStart): either
\* team for each player, player counts and seconds below, within and above
\* the limits.
StartSubmissions(i) ==
  IF i = 0 THEN {Submission(NameAnn, t, ItemsAnn) : t \in Teams}
  ELSE {Submission(NameBob, t, ItemsBob) : t \in Teams}
StartTeamNames == {<<"B", "Reds">>}
StartPlayerCounts == {1, 2, 31}
StartTimers == {<<1, 4>>, <<1, 301>>, <<2, 60>>}

NextStart ==
  \/ HostSetTeamName(StartTeamNames)
  \/ HostSetPlayerCount(StartPlayerCounts)
  \/ HostSetTimer(StartTimers)
  \/ HostStartWordEntry
  \/ EntrySubmitPlayer(StartSubmissions(state.entryIndex))
  \/ EntryAckHandoff
  \/ ReadyStartRound1
  \/ HandoffAck
  \/ TurnStart
  \/ HostRestartGame

\* Setup, word entry and the start of round 1 up to its first turn.
SpecStart == Init /\ [][NextStart]_vars

\* The event log is write-only: addEvent appends to it and no case of the
\* reducer reads it. SpecServe leaves it out of its states, which keeps them
\* finitely many however long a round is played.
Forget(s) == [s EXCEPT !.events = <<>>]

\* A step of the reducer, the log left out; the clock is read at the start
\* of a turn and at its end only.
ServeStep(next) ==
  /\ state' \in {Forget(s1) : s1 \in next}
  /\ UNCHANGED <<now, guessedIds, passedFresh, restarts, lastFinish, turnSnapshots,
                 restartMarks, storage>>

\* The items still in the pools
PoolSize(s) ==
  IF s.pools = NoObject THEN 0
  ELSE Len(s.pools[1].primary) + Len(s.pools[1].deferred)
         + (IF s.pools[1].currentItemId = NoItem THEN 0 ELSE 1)

\* The players guess every item they are shown until MaxServeItems items are
\* left; from then on they pass, undo and run out of time as they like.
EndGame == PoolSize(state) <= MaxServeItems

\* The tick of the interval timer that finds the turn's time used up
ServeTimeUp ==
  /\ state.screen = "turnActive" /\ state.turnEndEpochMs # NoSeconds
  /\ EndGame
  /\ ServeStep(TURN_SYNC_TIMER(state, state.turnEndEpochMs))

\* In the end game a turn takes at most MaxServeStack standing passes and
\* guesses
ServePassed ==
  /\ EndGame /\ Len(state.undoStack) < MaxServeStack
  /\ ServeStep(TURN_PASSED(state))

ServeGuessed ==
  /\ EndGame => Len(state.undoStack) < MaxServeStack
  /\ ServeStep(TURN_GUESSED(state, now))

ServeUndo == EndGame /\ ServeStep(TURN_UNDO(state))

ServeRestartRound == ServeStep(HOST_RESTART_ROUND(state))

NextServe ==
  \/ \E n \in TurnPlayerCounts : ServeStep(HOST_SET_PLAYER_COUNT(state, n))
  \/ ServeStep(HOST_START_WORD_ENTRY(state))
  \/ \E a \in TurnSubmissions(state.entryIndex) :
       ServeStep(ENTRY_SUBMIT_PLAYER(state, a.playerName, a.teamId, a.items))
  \/ ServeStep(ENTRY_ACK_HANDOFF(state))
  \/ ServeStep(READY_START_ROUND1(state))
  \/ ServeStep(HANDOFF_ACK(state))
  \/ ServeStep(TURN_START(state, now))
  \/ ServePassed
  \/ ServeGuessed
  \/ ServeUndo
  \/ ServeTimeUp
  \/ ServeStep(TIME_UP_ACK(state))
  \/ ServeRestartRound

\* Round 1 played for as long as the players like. While a turn runs the
\* interval timer ticks every 250 ms and the clock moves on, so the tick that
\* ends the turn comes.
SpecServe == Init /\ [][NextServe]_vars /\ WF_vars(ServeTimeUp)

\* What Number(e.target.value) gives for the texts "7" and "-" typed into the
\* timer field of round 1
TypedSeconds == {7, NaN}

\* A tick of the interval timer that comes when the longest turn the timer
\* settings allow is over
DeadlineTick ==
  /\ state.screen = "turnActive"
  /\ ServeStep(TURN_SYNC_TIMER(state, now + TimerSecondsMax * 1000))

NextDeadline ==
  \/ \E n \in TurnPlayerCounts : ServeStep(HOST_SET_PLAYER_COUNT(state, n))
  \/ \E seconds \in TypedSeconds : ServeStep(HOST_SET_TIMER(state, 1, seconds))
  \/ ServeStep(HOST_START_WORD_ENTRY(state))
  \/ \E a \in TurnSubmissions(state.entryIndex) :
       ServeStep(ENTRY_SUBMIT_PLAYER(state, a.playerName, a.teamId, a.items))
  \/ ServeStep(ENTRY_ACK_HANDOFF(state))
  \/ ServeStep(READY_START_ROUND1(state))
  \/ ServeStep(HANDOFF_ACK(state))
  \/ ServeStep(TURN_START(state, now))
  \/ ServePassed
  \/ ServeGuessed
  \/ ServeUndo
  \/ DeadlineTick
  \/ ServeStep(TIME_UP_ACK(state))

\* Round 1 with the timer of round 1 typed in by the host. While a turn runs
\* the interval timer ticks every 250 ms and the clock moves on, so a tick
\* later than any deadline comes.
SpecDeadline == Init /\ [][NextDeadline]_vars /\ WF_vars(DeadlineTick)

\* A dispatch that changes the state, and the persistence effect after it
PersistStep(next) ==
  /\ Len(storage.pending) < MaxPending
  /\ state' \in next /\ state' # state
  /\ storage' = PersistEffect(storage, state')
  /\ UNCHANGED <<now, guessedIds, passedFresh, restarts, lastFinish, turnSnapshots,
                 restartMarks>>

\* The "Restart game" and "New game" buttons: clearSavedGame is started,
\* then HOST_RESTART_GAME is dispatched
PersistRestartGame ==
  /\ Len(storage.pending) + 2 <= MaxPending
  /\ state' \in HOST_RESTART_GAME(state)
  /\ LET started == [storage EXCEPT
                       !.pending = Append(@, [op |-> "clear", payload |-> NoObject])]
     IN  storage' = IF state' # state THEN PersistEffect(started, state') ELSE started
  /\ UNCHANGED <<now, guessedIds, passedFresh, restarts, lastFinish, turnSnapshots,
                 restartMarks>>

\* The oldest storage call in flight completes: IndexedDB serves the
\* requests on its store in the order they were made; a request succeeds or
\* fails
StorageCompletes ==
  /\ storage.pending # <<>>
  /\ \E idbOk \in BOOLEAN :
       /\ ~idbOk => storage.failures < MaxStorageFailures
       /\ LET call == Head(storage.pending)
              rest == [storage EXCEPT
                         !.pending = Tail(@),
                         !.failures = IF idbOk THEN @ ELSE @ + 1]
          IN  storage' = IF call.op = "save" THEN saveGame(rest, call.payload, idbOk)
                         ELSE clearSavedGame(rest, idbOk)
  /\ UNCHANGED <<state, now, guessedIds, passedFresh, restarts, lastFinish,
                 turnSnapshots, restartMarks>>

NextPersist ==
  \/ \E n \in TurnPlayerCounts : PersistStep(HOST_SET_PLAYER_COUNT(state, n))
  \/ PersistStep(HOST_START_WORD_ENTRY(state))
  \/ \E a \in PlaySubmissions(state.entryIndex) :
       PersistStep(ENTRY_SUBMIT_PLAYER(state, a.playerName, a.teamId, a.items))
  \/ PersistStep(ENTRY_ACK_HANDOFF(state))
  \/ PersistStep(READY_START_ROUND1(state))
  \/ PersistStep(HANDOFF_ACK(state))
  \/ PersistRestartGame
  \/ StorageCompletes

\* Setup, word entry and the start of round 1, with the saved game following.
SpecPersist == Init /\ [][NextPersist]_vars

-----------------------------------------------------------------------------
(* The properties.                                                         *)

AllItemIds(s) == {s.items[i].id : i \in 1..Len(s.items)}
NoRepeats(seq) == \A i, j \in 1..Len(seq) : i # j => seq[i] # seq[j]
CurrentOf(p) == IF p.currentItemId = NoItem THEN {} ELSE {p.currentItemId}
LastEvent(s) == s.events[Len(s.events)]
ItemPresented(s) ==
  s.screen = "turnActive" /\ s.pools # NoObject /\ s.pools[1].currentItemId # NoItem

\* C1 (pool conservation): whenever a round is active and the pools exist,
\* primary, deferred and the current item hold no id twice, are pairwise
\* disjoint and disjoint from the items guessed (and not undone) in the
\* round, and together with these are all the item ids.
PoolConservation ==
  state.currentRound # NoRound /\ state.pools # NoObject =>
    LET p == state.pools[1]
        P == Range(p.primary)
        D == Range(p.deferred)
        C == CurrentOf(p)
    IN  /\ NoRepeats(p.primary) /\ NoRepeats(p.deferred)
        /\ P \cap D = {} /\ P \cap C = {} /\ D \cap C = {}
        /\ guessedIds \cap (P \cup D \cup C) = {}
        /\ P \cup D \cup C \cup guessedIds = AllItemIds(state)

\* A turn with an item presented, items left in primary, a passed item in
\* deferred and a guessed item.
PoolConservation_Witness ==
  /\ ItemPresented(state)
  /\ Len(state.pools[1].primary) > 0
  /\ Len(state.pools[1].deferred) > 0
  /\ guessedIds # {}

\* C2 (pass fairness, as amended): an item whose pass stands (it was not
\* undone by TURN_UNDO and the pools were not rebuilt since) is not the
\* current item before primary has been empty once since the pass.
PassFairness ==
  state.pools # NoObject => state.pools[1].currentItemId \notin passedFresh

\* An item that was passed waits in deferred while another item was guessed
\* and a third is presented.
PassFairness_Witness ==
  /\ ItemPresented(state)
  /\ passedFresh # {}
  /\ passedFresh \subseteq Range(state.pools[1].deferred)
  /\ guessedIds # {}

\* C2 as stated: whatever the action, no step that starts with a non-empty
\* primary makes current an item that was passed and since whose pass primary
\* has not been empty.
PassFairness_AnyAction ==
  [][\A x \in passedFresh :
       PrimaryOf(state) # <<>> /\ state'.pools # NoObject
         => state'.pools[1].currentItemId # x]_vars

\* TURN_GUESSED and then TURN_UNDO give back the pools and the scores.
UndoRestores(s) ==
  \A s1 \in TURN_GUESSED(s, now) : \A s2 \in TURN_UNDO(s1) :
    s2.pools = s.pools /\ s2.scoresByRound = s.scoresByRound

LastItemPresented(s) ==
  ItemPresented(s) /\ s.pools[1].primary = <<>> /\ s.pools[1].deferred = <<>>

\* C3 (undo exactness, as amended): with an item presented that is not the
\* last one of the round, TURN_GUESSED and then TURN_UNDO yield the pools
\* and the scores of before the guess; the guess of the last item completes
\* the round, and TURN_UNDO changes nothing then.
UndoExactness ==
  /\ ItemPresented(state) /\ ~LastItemPresented(state) => UndoRestores(state)
  /\ LastItemPresented(state) =>
       \A s1 \in TURN_GUESSED(state, now) :
         s1.screen = "roundComplete" /\ TURN_UNDO(s1) = {s1}

\* A turn in which a guess has just been undone.
UndoExactness_Witness ==
  /\ ItemPresented(state)
  /\ Len(state.events) > 0
  /\ LastEvent(state).type = "UNDO" /\ LastEvent(state).pointsDelta = -1
  /\ UndoRestores(state)

\* C3 as stated: with any item presented.
UndoExactness_AnyItem == ItemPresented(state) => UndoRestores(state)

ConfiguredSeconds(s) ==
  CASE s.currentRound = 1 -> s.timerSettings.round1Seconds
    [] s.currentRound = 2 -> s.timerSettings.round2Seconds
    [] s.currentRound = 3 -> s.timerSettings.round3Seconds

\* The turn about to start is the first one of the round that follows the
\* round completed by lastFinish, by the team that finished it with time left.
CarryApplies ==
  /\ lastFinish.round # NoRound /\ state.currentRound = lastFinish.round + 1
  /\ lastFinish.seconds > 0
  /\ lastFinish.team = state.currentTeamTurn

\* C4 (carryover scoping): a turn started by TURN_START lasts the round's
\* configured seconds, unless it is the first turn of the round following a
\* round whose last item was guessed with time remaining and the starting
\* team is that round's finisher: then it may last these remaining seconds,
\* and does so in a game without HOST_RESTART_ROUND.
CarryoverScoping ==
  [][state.screen = "turnStart" /\ state'.screen = "turnActive" =>
       /\ \/ state'.turnDurationSeconds = ConfiguredSeconds(state)
          \/ CarryApplies /\ state'.turnDurationSeconds = lastFinish.seconds
       /\ CarryApplies /\ restarts = 0 =>
            state'.turnDurationSeconds = lastFinish.seconds]_vars

\* The first turn of round 2 runs on seconds carried over from round 1.
CarryoverScoping_Witness ==
  /\ state.screen = "turnActive" /\ state.currentRound = 2
  /\ state.turnDurationSeconds # ConfiguredSeconds(state)
  /\ LastEvent(state).type = "TURN_STARTED"

\* C5 (carryover recording): when TURN_GUESSED removes the last item of
\* round r with remaining = max(0, ceil((turnEndEpochMs - now) / 1000))
\* seconds left, carryoverForNextRound is these seconds with the guessing
\* team if r < 3 and remaining > 0, and null otherwise.
CarryoverRecording ==
  [][state.screen = "turnActive" /\ state'.screen = "roundComplete" =>
       LET diff == state.turnEndEpochMs - now
           remaining == IF diff > 0 THEN (diff + 999) \div 1000 ELSE 0
       IN  state'.carryoverForNextRound =
             IF state.currentRound < 3 /\ remaining > 0
             THEN <<[seconds |-> remaining, teamId |-> state.currentTeamTurn]>>
             ELSE NoObject]_vars

\* Round 1 was completed after the clock moved, with seconds left.
CarryoverRecording_Witness ==
  /\ state.screen = "roundComplete" /\ state.currentRound = 1
  /\ state.carryoverForNextRound # NoObject
  /\ state.carryoverForNextRound[1].seconds < state.timerSettings.round1Seconds
  /\ state.carryoverForNextRound[1].teamId = state.roundFinisherTeam[1]

\* C6 (time-up keeps the item): when TURN_SYNC_TIMER finds no time left
\* while an item is presented, the next screen is timeUp, no item is
\* current, primary is a permutation of the old primary plus the item,
\* deferred and the scores are unchanged, the undo stack is empty and one
\* TIME_UP event is appended.
TimeUpKeepsItem ==
  ItemPresented(state) /\ state.turnEndEpochMs # NoSeconds /\ now >= state.turnEndEpochMs =>
    \A s1 \in TURN_SYNC_TIMER(state, now) :
      LET p == state.pools[1]
          p1 == s1.pools[1]
      IN  /\ s1.screen = "timeUp"
          /\ p1.currentItemId = NoItem
          /\ Len(p1.primary) = Len(p.primary) + 1
          /\ Range(p1.primary) = Range(p.primary) \cup {p.currentItemId}
          /\ NoRepeats(p1.primary)
          /\ p1.deferred = p.deferred
          /\ s1.scoresByRound = state.scoresByRound
          /\ s1.undoStack = <<>>
          /\ Len(s1.events) = Len(state.events) + 1
          /\ SubSeq(s1.events, 1, Len(state.events)) = state.events
          /\ LastEvent(s1).type = "TIME_UP"

\* Time is up and the item that was presented is back in primary, after at
\* least one guess in the round.
TimeUpKeepsItem_Witness ==
  /\ state.screen = "timeUp"
  /\ LastEvent(state).type = "TIME_UP"
  /\ state.pools[1].currentItemId = NoItem
  /\ guessedIds # {}
  /\ Range(state.pools[1].primary) \cup Range(state.pools[1].deferred) \cup guessedIds
       = AllItemIds(state)

Screens == {"hostSetup", "wordEntry", "entryHandoff", "ready", "turnHandoff",
            "turnStart", "turnActive", "timeUp", "roundComplete", "final"}

\* The edges of the screen protocol
ProtocolEdges ==
  { <<"hostSetup", "wordEntry">>, <<"wordEntry", "entryHandoff">>,
    <<"entryHandoff", "wordEntry">>, <<"wordEntry", "ready">>,
    <<"ready", "turnHandoff">>, <<"turnHandoff", "turnStart">>,
    <<"turnStart", "turnActive">>, <<"turnActive", "timeUp">>,
    <<"turnActive", "roundComplete">>, <<"timeUp", "turnHandoff">>,
    <<"roundComplete", "turnHandoff">>, <<"roundComplete", "final">>,
    <<"final", "hostSetup">> }

\* The edges of the host's actions: HOST_RESTART_GAME from any screen,
\* HOST_START_WORD_ENTRY before the game starts, HOST_RESTART_ROUND between
\* turns and after the last round.
HostEdges ==
  {<<x, "hostSetup">> : x \in Screens}
    \cup { <<"ready", "wordEntry">>, <<"turnStart", "turnHandoff">>,
           <<"final", "turnHandoff">> }

\* C7 (screen protocol, as amended): in every step the screen stays the
\* same, or changes along an edge of the protocol or along an edge of the
\* host's restart and start-word-entry actions.
ScreenProtocol ==
  [][state'.screen = state.screen
       \/ <<state.screen, state'.screen>> \in ProtocolEdges \cup HostEdges]_vars

\* The turn is about to start, and HOST_RESTART_ROUND leads back to the
\* hand-off screen, HOST_RESTART_GAME to the setup.
ScreenProtocol_Witness ==
  /\ state.screen = "turnStart"
  /\ \A s1 \in HOST_RESTART_ROUND(state) : s1.screen = "turnHandoff"
  /\ \A s1 \in HOST_RESTART_GAME(state) : s1.screen = "hostSetup"
  /\ CountEvents(state, "TURN_STARTED") > 0

\* C7 as stated: the edges of the protocol alone.
ScreenProtocol_ListedEdges ==
  [][state'.screen = state.screen
       \/ <<state.screen, state'.screen>> \in ProtocolEdges]_vars

AnySubmission == PlaySubmissions(0) \cup PlaySubmissions(1)

\* C8 (stale and duplicate events): each of the eleven actions, issued on
\* another screen than its own, returns the state it was given; a second tap
\* of TIME_UP_ACK, HANDOFF_ACK, TURN_START or ROUND_PROCEED changes nothing.
StaleEventsIgnored ==
  /\ state.screen # "wordEntry" =>
       \A a \in AnySubmission :
         ENTRY_SUBMIT_PLAYER(state, a.playerName, a.teamId, a.items) = {state}
  /\ state.screen # "entryHandoff" => ENTRY_ACK_HANDOFF(state) = {state}
  /\ state.screen # "ready" => READY_START_ROUND1(state) = {state}
  /\ state.screen # "turnHandoff" => HANDOFF_ACK(state) = {state}
  /\ state.screen # "turnStart" => TURN_START(state, now) = {state}
  /\ state.screen # "turnActive" =>
       /\ \A nowMs \in {now, now + ClockStepMs} : TURN_SYNC_TIMER(state, nowMs) = {state}
       /\ TURN_GUESSED(state, now) = {state}
       /\ TURN_PASSED(state) = {state}
       /\ TURN_UNDO(state) = {state}
  /\ state.screen # "timeUp" => TIME_UP_ACK(state) = {state}
  /\ state.screen # "roundComplete" => ROUND_PROCEED(state) = {state}
  /\ \A s1 \in TIME_UP_ACK(state) : TIME_UP_ACK(s1) = {s1}
  /\ \A s1 \in HANDOFF_ACK(state) : HANDOFF_ACK(s1) = {s1}
  /\ \A s1 \in TURN_START(state, now) : TURN_START(s1, now) = {s1}
  /\ \A s1 \in ROUND_PROCEED(state) : ROUND_PROCEED(s1) = {s1}

\* The hand-off screen right after TIME_UP_ACK: a second TIME_UP_ACK would
\* change nothing (nor would a guess), HANDOFF_ACK would.
StaleEventsIgnored_Witness ==
  /\ state.screen = "turnHandoff"
  /\ LastEvent(state).type = "TIME_UP"
  /\ TIME_UP_ACK(state) = {state}
  /\ TURN_GUESSED(state, now) = {state}
  /\ HANDOFF_ACK(state) # {state}

NormalizedOf(raw) == normalizeFishbowlText(raw).normalizedText

\* The submission has an item equal, after normalization, to a stored item
\* or to an earlier item of the submission.
HasDuplicate(s, raws) ==
  LET norms == [k \in 1..Len(raws) |-> NormalizedOf(raws[k])]
  IN  \E k \in 1..Len(raws) :
        \/ \E m \in 1..Len(s.items) : s.items[m].normalizedText = norms[k]
        \/ \E m \in 1..(k - 1) : norms[m] = norms[k]

\* C9 (duplicate invariant): no two stored items have the same
\* normalizedText, and ENTRY_SUBMIT_PLAYER with an item equal (after
\* normalization) to a stored item or to an earlier item of the submission
\* stores nothing.
DuplicateInvariant ==
  /\ \A i, j \in 1..Len(state.items) :
       i # j => state.items[i].normalizedText # state.items[j].normalizedText
  /\ \A a \in EntrySubmissions :
       HasDuplicate(state, a.items) =>
         \A s1 \in ENTRY_SUBMIT_PLAYER(state, a.playerName, a.teamId, a.items) :
           /\ s1.items = state.items /\ s1.players = state.players
           /\ s1.entryIndex = state.entryIndex /\ s1.screen = state.screen

\* Two players' items are stored and a third submission was refused for an
\* item that duplicates a stored one.
DuplicateInvariant_Witness ==
  /\ state.screen = "wordEntry"
  /\ Len(state.items) = 6
  /\ \E i \in 1..3 : state.lastError = ErrDuplicateExisting(i)

HasText(s, text) == \E i \in 1..Len(s.items) : s.items[i].text = text

\* C10 (punctuation-insensitive duplicates), as stated: "Spider-Man" and
\* "Spiderman" have the same normalizedText, so that the second is refused
\* after the first: the two are never stored together.
PunctuationDuplicateRejected ==
  ~(HasText(state, SpiderMan) /\ HasText(state, Spiderman))

\* The states the reducer can return for an action that is none of TURN_GUESSED,
\* TURN_UNDO, HOST_RESTART_ROUND, HOST_START_WORD_ENTRY, HOST_RESTART_GAME.
OtherResults(s, nowMs) ==
  UNION {HOST_SET_TEAM_NAME(s, n[1], n[2]) : n \in PlayTeamNames}
  \cup UNION {HOST_SET_PLAYER_COUNT(s, n) : n \in PlayPlayerCounts}
  \cup UNION {HOST_SET_TIMER(s, t[1], t[2]) : t \in PlayTimers}
  \cup UNION {ENTRY_SUBMIT_PLAYER(s, a.playerName, a.teamId, a.items) : a \in AnySubmission}
  \cup ENTRY_ACK_HANDOFF(s) \cup READY_START_ROUND1(s) \cup HANDOFF_ACK(s)
  \cup TURN_START(s, nowMs) \cup TURN_SYNC_TIMER(s, nowMs) \cup TURN_PASSED(s)
  \cup TIME_UP_ACK(s) \cup ROUND_PROCEED(s)

\* C11 (score monotonicity): TURN_GUESSED leaves the scores alone or adds
\* exactly 1 to the score of the current round and the current team; a
\* TURN_UNDO that fails, and every action other than TURN_GUESSED, TURN_UNDO,
\* HOST_RESTART_ROUND, HOST_START_WORD_ENTRY and HOST_RESTART_GAME (TURN_PASSED
\* among them), leaves every score as it was.
ScoreMonotonicity ==
  /\ \A s1 \in TURN_GUESSED(state, now) :
       \/ s1.scoresByRound = state.scoresByRound
       \/ /\ state.currentRound # NoRound
          /\ s1.scoresByRound =
               [state.scoresByRound EXCEPT
                  ![state.currentRound][state.currentTeamTurn] = @ + 1]
  /\ \A s1 \in OtherResults(state, now) : s1.scoresByRound = state.scoresByRound
  /\ \A s1 \in TURN_PASSED(state) : s1.scoresByRound = state.scoresByRound
  /\ \A s1 \in TURN_UNDO(state) :
       Len(s1.events) = Len(state.events) => s1.scoresByRound = state.scoresByRound

\* A guess and a pass have both acted in round 2: the team has its point, the
\* pass that followed left it there.
ScoreMonotonicity_Witness ==
  /\ state.currentRound = 2
  /\ state.screen = "turnActive"
  /\ LastEvent(state).type = "WORD_PASSED"
  /\ state.scoresByRound[2][state.currentTeamTurn] >= 1

\* The events logged since the running turn started
TurnEvents(s) ==
  LET starts == {i \in 1..Len(s.events) : s.events[i].type = "TURN_STARTED"}
      from == IF starts = {} THEN 1 ELSE CHOOSE i \in starts : \A j \in starts : j <= i
  IN  SubSeq(s.events, from, Len(s.events))
CountTurnEvents(s, types) ==
  Cardinality({i \in 1..Len(TurnEvents(s)) : TurnEvents(s)[i].type \in types})

RECURSIVE Undone(_, _)
\* The state after k TURN_UNDO actions in a row
Undone(s, k) == IF k = 0 THEN s ELSE CHOOSE s1 \in TURN_UNDO(Undone(s, k - 1)) : TRUE

\* C12 (bounded multi-level undo): the undo stack never holds more than 10
\* entries, and its entries are the newest of the turn's standing passes and
\* guesses; after n passes and guesses in a row within one running turn,
\* min(n, 10) TURN_UNDO actions in a row succeed, the k-th bringing pools and
\* scoresByRound back to what they were just before the k-th most recent
\* action, and the TURN_UNDO after them fails with 'Nothing to undo.'.
BoundedUndo ==
  /\ Len(state.undoStack) <= 10
  /\ state.screen = "turnActive" =>
       LET n == Len(turnSnapshots)
           len == Len(state.undoStack)
       IN  /\ len <= n
           /\ \A i \in 1..len :
                /\ state.undoStack[i].pools = turnSnapshots[n - len + i].pools
                /\ state.undoStack[i].scoresByRound = turnSnapshots[n - len + i].scoresByRound
  /\ state.screen = "turnActive" /\ CountTurnEvents(state, {"UNDO"}) = 0 =>
       LET n == Len(turnSnapshots)
           m == IF n < 10 THEN n ELSE 10
           last == Undone(state, m)
       IN  /\ n = CountTurnEvents(state, {"WORD_PASSED", "WORD_GUESSED"})
           /\ Len(state.undoStack) = m
           /\ \A k \in 1..m :
                LET s1 == Undone(state, k)
                IN  /\ s1.pools = turnSnapshots[n - k + 1].pools
                    /\ s1.scoresByRound = turnSnapshots[n - k + 1].scoresByRound
                    /\ s1.lastError = NoError
                    /\ Len(s1.events) = Len(state.events) + k
                    /\ LastEvent(s1).type = "UNDO"
           /\ TURN_UNDO(last) = {[last EXCEPT !.lastError = ErrNothingToUndo]}

\* Eleven passes and guesses in one turn, a guess among them, then ten undos
\* that succeeded and an eleventh that failed.
BoundedUndo_Witness ==
  /\ state.screen = "turnActive"
  /\ CountTurnEvents(state, {"WORD_PASSED", "WORD_GUESSED"}) = 11
  /\ CountTurnEvents(state, {"WORD_GUESSED"}) = 1
  /\ CountTurnEvents(state, {"UNDO"}) = 10
  /\ state.undoStack = <<>>
  /\ Len(turnSnapshots) = 1
  /\ state.lastError = ErrNothingToUndo

\* C13 (undo never crosses a turn, round or screen boundary): a non-empty undo
\* stack implies screen = turnActive; every entry carries the current round
\* and the current team and was pushed by a pass or guess of the running turn;
\* the stack is empty right after a TURN_START that starts a turn, a time-up,
\* a round completion, a ROUND_PROCEED, a HOST_RESTART_ROUND that restarts the
\* round and a HOST_RESTART_GAME.
UndoWithinTurn ==
  /\ state.undoStack # <<>> => state.screen = "turnActive"
  /\ \A i \in 1..Len(state.undoStack) :
       LET n == Len(turnSnapshots)
           len == Len(state.undoStack)
       IN  /\ state.undoStack[i].round = state.currentRound
           /\ state.undoStack[i].team = state.currentTeamTurn
           /\ len <= n
           /\ len <= CountTurnEvents(state, {"WORD_PASSED", "WORD_GUESSED"})
           /\ state.undoStack[i].pools = turnSnapshots[n - len + i].pools
  /\ \A s1 \in TURN_START(state, now) : s1 # state => s1.undoStack = <<>>
  /\ \A s1 \in TURN_SYNC_TIMER(state, now) : s1.screen = "timeUp" => s1.undoStack = <<>>
  /\ \A s1 \in TURN_GUESSED(state, now) : s1.screen = "roundComplete" => s1.undoStack = <<>>
  /\ \A s1 \in ROUND_PROCEED(state) : s1 # state => s1.undoStack = <<>>
  /\ \A s1 \in HOST_RESTART_ROUND(state) :
       state.screen # "turnActive" /\ state.currentRound # NoRound => s1.undoStack = <<>>
  /\ \A s1 \in HOST_RESTART_GAME(state) : s1.undoStack = <<>>

\* A turn of round 2 that follows a time-up, with a guess on its stack and
\* none of the earlier guesses.
UndoWithinTurn_Witness ==
  /\ state.screen = "turnActive" /\ state.currentRound = 2
  /\ CountEvents(state, "TIME_UP") = 1 /\ CountEvents(state, "UNDO") = 0
  /\ Len(state.undoStack) = 1
  /\ CountEvents(state, "WORD_GUESSED") > 6
  /\ LastEvent(state).type = "WORD_GUESSED"

\* The state with an undo entry of another round on top of its stack
WithForeignEntry(s) ==
  [s EXCEPT !.undoStack =
     <<[kind |-> "WORD_PASSED", round |-> (s.currentRound % LastRound) + 1,
        team |-> s.currentTeamTurn, pools |-> s.pools,
        scoresByRound |-> emptyScores, wordId |-> NoItem, pointsDelta |-> 0]>>]

\* C14 (a failed undo changes nothing but the error): on turnActive with an
\* empty undo stack, TURN_UNDO returns the state with lastError = 'Nothing to
\* undo.' and nothing else changed (screen, pools, scoresByRound, undo stack,
\* timer fields, event log); so it would with a top entry of another round.
FailedUndoFrame ==
  state.screen = "turnActive" =>
    /\ state.undoStack = <<>> =>
         \A s1 \in TURN_UNDO(state) :
           /\ s1.lastError = ErrNothingToUndo
           /\ s1.screen = state.screen /\ s1.pools = state.pools
           /\ s1.scoresByRound = state.scoresByRound
           /\ s1.undoStack = state.undoStack
           /\ s1.turnEndEpochMs = state.turnEndEpochMs
           /\ s1.turnDurationSeconds = state.turnDurationSeconds
           /\ s1.timerSecondsRemaining = state.timerSecondsRemaining
           /\ s1.events = state.events
           /\ s1 = [state EXCEPT !.lastError = ErrNothingToUndo]
    /\ LET s == WithForeignEntry(state)
       IN  TURN_UNDO(s) = {[s EXCEPT !.lastError = ErrNothingToUndo]}

\* A TURN_UNDO has failed in a running turn, after a guess of the turn was
\* undone.
FailedUndoFrame_Witness ==
  /\ state.screen = "turnActive"
  /\ state.lastError = ErrNothingToUndo
  /\ state.undoStack = <<>>
  /\ LastEvent(state).type = "UNDO"

\* The presented item is the last one left in the round
LastItemLeft(s) ==
  ItemPresented(s) /\ s.pools[1].primary = <<>> /\ s.pools[1].deferred = <<>>

\* C15 (round completion is synchronous with the last guess): TURN_GUESSED on
\* the last remaining item returns screen roundComplete with
\* roundFinisherTeam[round] the guessing team, the timer fields cleared and
\* WORD_GUESSED, ROUND_COMPLETED as the last two events; no state has screen
\* turnActive with no current item and both pools empty; on roundComplete
\* every item has been guessed in the round.
RoundCompletion ==
  /\ LastItemLeft(state) =>
       \A s1 \in TURN_GUESSED(state, now) :
         /\ s1.screen = "roundComplete"
         /\ s1.roundFinisherTeam[state.currentRound] = state.currentTeamTurn
         /\ s1.turnEndEpochMs = NoSeconds
         /\ s1.turnDurationSeconds = NoSeconds
         /\ s1.timerSecondsRemaining = NoSeconds
         /\ Len(s1.events) = Len(state.events) + 2
         /\ s1.events[Len(s1.events) - 1] =
              Event("WORD_GUESSED", state.currentRound, state.currentTeamTurn, 1)
         /\ LastEvent(s1) =
              Event("ROUND_COMPLETED", state.currentRound, state.currentTeamTurn, 0)
  /\ ~(/\ state.screen = "turnActive"
       /\ state.pools # NoObject
       /\ state.pools[1].currentItemId = NoItem
       /\ state.pools[1].primary = <<>> /\ state.pools[1].deferred = <<>>)
  /\ state.screen = "turnActive" => state.pools # NoObject
  /\ state.screen = "roundComplete" =>
       /\ guessedIds = AllItemIds(state)
       /\ state.scoresByRound[state.currentRound]["A"]
            + state.scoresByRound[state.currentRound]["B"] = Len(state.items)

\* Round 2 has just been completed by its last guess, after a pass.
RoundCompletion_Witness ==
  /\ state.screen = "roundComplete" /\ state.currentRound = 2
  /\ LastEvent(state).type = "ROUND_COMPLETED"
  /\ state.events[Len(state.events) - 1].type = "WORD_GUESSED"
  /\ CountEvents(state, "WORD_PASSED") = 1
  /\ state.roundFinisherTeam[2] = state.currentTeamTurn

\* What C16 says of ROUND_PROCEED, of the results it has in state s
ProceedsInOrder(s) ==
  s.screen = "roundComplete" =>
    \A s1 \in ROUND_PROCEED(s) :
      IF s.currentRound = 3
      THEN s1.screen = "final" /\ s1.currentRound = 3
      ELSE LET finisher == s.roundFinisherTeam[s.currentRound]
           IN  /\ finisher \in Teams
               /\ s1.currentRound = s.currentRound + 1
               /\ s1.currentTeamTurn = finisher
               /\ s1.roundStartTeam[s.currentRound + 1] = finisher
               /\ s1.screen = "turnHandoff"
               /\ Len(s1.events) = Len(s.events) + 1
               /\ LastEvent(s1) = Event("ROUND_STARTED", s.currentRound + 1, finisher, 0)

\* C16 (round order and next starter): ROUND_PROCEED from roundComplete moves
\* to final when currentRound = 3; otherwise it increases currentRound by
\* exactly 1, sets currentTeamTurn and roundStartTeam[next] to
\* roundFinisherTeam[previous], logs ROUND_STARTED and goes to turnHandoff.
\* currentRound changes only from null to 1, from 1 to 2 and from 2 to 3 (on
\* roundComplete), or back to null when HOST_RESTART_GAME resets the game;
\* final is entered only from roundComplete of round 3.
RoundOrder ==
  [][/\ ProceedsInOrder(state)
     /\ state'.currentRound # state.currentRound =>
          \/ state.currentRound = NoRound /\ state'.currentRound = 1
          \/ /\ state.currentRound \in {1, 2} /\ state.screen = "roundComplete"
             /\ state'.currentRound = state.currentRound + 1
          \/ state' = createNewGameState
     /\ state'.screen = "final" /\ state.screen # "final" =>
          /\ state.screen = "roundComplete" /\ state.currentRound = 3
          /\ LastEvent(state) = Event("ROUND_COMPLETED", 3, state.currentTeamTurn, 0)]_vars

\* The game is over: rounds 1, 2 and 3 were started in turn and ROUND_PROCEED
\* has led from round 3 to final.
RoundOrder_Witness ==
  /\ state.screen = "final" /\ state.currentRound = 3
  /\ CountEvents(state, "ROUND_STARTED") = 3
  /\ CountEvents(state, "ROUND_COMPLETED") = 3
  /\ state.roundStartTeam[3] = state.roundFinisherTeam[2]

\* C16 as stated: currentRound only takes the values 1, 2, 3 in that order,
\* that is, whenever it changes it changes from null to 1 or goes up by one.
RoundOrder_NeverBack ==
  [][state'.currentRound # state.currentRound =>
       /\ state'.currentRound \in Rounds
       /\ \/ state.currentRound = NoRound /\ state'.currentRound = 1
          \/ state'.currentRound = state.currentRound + 1]_vars

\* Events i < j of the log are the TURN_STARTED events of two consecutive
\* turns of one round: no turn and no round starts between them.
ConsecutiveTurns(s, i, j) ==
  /\ i < j
  /\ s.events[i].type = "TURN_STARTED" /\ s.events[j].type = "TURN_STARTED"
  /\ s.events[i].round = s.events[j].round
  /\ \A k \in (i + 1)..(j - 1) : s.events[k].type \notin {"TURN_STARTED", "ROUND_STARTED"}

\* A HOST_RESTART_ROUND acted between the logging of events i and j
RestartBetween(i, j) == \E m \in restartMarks : i <= m /\ m < j

\* C17 (turn alternation): TIME_UP_ACK on timeUp flips currentTeamTurn to the
\* other team, so any two consecutive turns of one round (two TURN_STARTED
\* events of the same round with no TURN_STARTED or ROUND_STARTED between
\* them) with no HOST_RESTART_ROUND between them are played by different
\* teams; the turn after a HOST_RESTART_ROUND is played by the team that
\* started the round.
TurnAlternation ==
  /\ state.screen = "timeUp" =>
       \A s1 \in TIME_UP_ACK(state) : s1.currentTeamTurn = otherTeam(state.currentTeamTurn)
  /\ \A i, j \in 1..Len(state.events) :
       ConsecutiveTurns(state, i, j) =>
         IF RestartBetween(i, j)
         THEN state.events[j].team = state.roundStartTeam[state.events[j].round]
         ELSE state.events[j].team = otherTeam(state.events[i].team)

\* Two turns of round 2 with a time-up between them, played by either team.
TurnAlternation_Witness ==
  /\ state.currentRound = 2 /\ state.screen = "turnActive"
  /\ restartMarks = {}
  /\ \E i, j \in 1..Len(state.events) :
       /\ ConsecutiveTurns(state, i, j) /\ state.events[i].round = 2
       /\ \E k \in (i + 1)..(j - 1) : state.events[k].type = "TIME_UP"
       /\ state.events[j].team = otherTeam(state.events[i].team)
       /\ state.events[j].team = state.currentTeamTurn

\* C17 as stated: any two consecutive turns of one round are played by
\* different teams.
TurnAlternation_AnyTwoTurns ==
  \A i, j \in 1..Len(state.events) :
    ConsecutiveTurns(state, i, j) => state.events[j].team # state.events[i].team

\* C18 (the first submitter starts round 1): startingTeamRound1 is null until
\* the first successful ENTRY_SUBMIT_PLAYER, which sets it to the team of that
\* submission; later submissions do not change it; a READY_START_ROUND1 that
\* starts round 1 sets currentTeamTurn and roundStartTeam[1] to the team of
\* players[0].
FirstSubmitterStarts ==
  /\ state.startingTeamRound1 =
       IF state.players = <<>> THEN NoTeam ELSE state.players[1].teamId
  /\ \A a \in StartSubmissions(0) \cup StartSubmissions(1) :
       \A s1 \in ENTRY_SUBMIT_PLAYER(state, a.playerName, a.teamId, a.items) :
         IF Len(s1.players) > Len(state.players)
         THEN s1.startingTeamRound1 =
                IF state.players = <<>> THEN a.teamId ELSE state.startingTeamRound1
         ELSE s1.startingTeamRound1 = state.startingTeamRound1
  /\ \A s1 \in READY_START_ROUND1(state) :
       s1.currentRound # state.currentRound =>
         /\ s1.currentTeamTurn = state.players[1].teamId
         /\ s1.roundStartTeam[1] = state.players[1].teamId
  /\ state.screen = "turnHandoff" =>
       /\ state.currentTeamTurn = state.players[1].teamId
       /\ state.roundStartTeam[1] = state.players[1].teamId

\* Round 1 has been started for team B, whose player submitted first, the
\* second player being of team A.
FirstSubmitterStarts_Witness ==
  /\ state.screen = "turnHandoff" /\ state.currentRound = 1
  /\ Len(state.players) = 2
  /\ state.players[1].teamId = "B" /\ state.players[2].teamId = "A"
  /\ state.currentTeamTurn = "B" /\ state.roundStartTeam[1] = "B"

\* The setup of a game: what the pre-game lock protects
Setup(s) ==
  [teams |-> s.teams, playerCount |-> s.playerCount,
   timerSettings |-> s.timerSettings, players |-> s.players, items |-> s.items]

\* C19 (pre-game lock): once currentRound is set, HOST_SET_TEAM_NAME,
\* HOST_SET_PLAYER_COUNT and HOST_SET_TIMER return the state unchanged, and
\* every action except HOST_RESTART_GAME leaves team names, playerCount,
\* timerSettings, players and items as they were.
PreGameLock ==
  state.currentRound # NoRound =>
    /\ \A n \in StartTeamNames \cup PlayTeamNames :
         HOST_SET_TEAM_NAME(state, n[1], n[2]) = {state}
    /\ \A n \in StartPlayerCounts \cup PlayPlayerCounts :
         HOST_SET_PLAYER_COUNT(state, n) = {state}
    /\ \A t \in StartTimers \cup PlayTimers : HOST_SET_TIMER(state, t[1], t[2]) = {state}
    /\ \A s1 \in OtherResults(state, now) \cup TURN_GUESSED(state, now) \cup TURN_UNDO(state)
                   \cup HOST_RESTART_ROUND(state) \cup HOST_START_WORD_ENTRY(state) :
         Setup(s1) = Setup(state)

\* A turn of round 3 runs, and the host's inputs are not what the setup holds.
PreGameLock_Witness ==
  /\ state.currentRound = 3 /\ state.screen = "turnActive"
  /\ \E n \in StartTeamNames : state.teams[n[1]] # n[2]
  /\ \E n \in StartPlayerCounts : state.playerCount # clampInt(n, PlayerCountMin, PlayerCountMax)
  /\ Len(state.players) = 2 /\ Len(state.items) = 6

\* Integers below, at, within, at and above the limits of both clamps
ClampProbes == (0 - 2)..7 \cup 28..32 \cup 298..302

BlankName(a) == Trim(a.playerName) = <<>>
DefectiveItems(s, a) ==
  LET n == [i \in 1..Len(a.items) |-> normalizeFishbowlText(a.items[i])]
  IN  \/ \E i \in 1..Len(a.items) : ~n[i].isValid
      \/ \E i \in 1..Len(a.items) : \E k \in 1..Len(s.items) :
           s.items[k].normalizedText = n[i].normalizedText
      \/ \E i, j \in 1..Len(a.items) : i < j /\ n[i].normalizedText = n[j].normalizedText

\* s1 differs from s in lastError alone, which is set
RejectedWithError(s, s1) ==
  s1.lastError # NoError /\ s1 = [s EXCEPT !.lastError = s1.lastError]

\* s1 is s with the player of submission a and the player's three items added
Accepted(s, a, s1) ==
  LET np == Len(s.players)
      ni == Len(s.items)
  IN  /\ Len(s1.players) = np + 1 /\ SubSeq(s1.players, 1, np) = s.players
      /\ s1.players[np + 1].teamId = a.teamId
      /\ s1.players[np + 1].name = Trim(a.playerName)
      /\ Len(s1.items) = ni + 3 /\ SubSeq(s1.items, 1, ni) = s.items
      /\ \A k \in (ni + 1)..(ni + 3) :
           /\ s1.items[k].ownerPlayerId = s1.players[np + 1].id
           /\ s1.items[k].text = Trim(a.items[k - ni])
      /\ s1.entryIndex = s.entryIndex + 1
      /\ s1.lastError = NoError
      /\ s1.screen = IF s1.entryIndex = s.playerCount THEN "ready" ELSE "entryHandoff"

RestartRoundFrame ==
  \A s1 \in HOST_RESTART_ROUND(state) :
    IF state.screen = "turnActive" \/ state.currentRound = NoRound THEN s1 = state
    ELSE LET r == state.currentRound
         IN  /\ \A t \in Teams : s1.scoresByRound[r][t] = 0
             /\ \A q \in Rounds \ {r} : s1.scoresByRound[q] = state.scoresByRound[q]
             /\ s1.items = state.items /\ s1.players = state.players
             /\ s1.currentRound = r
             /\ s1.roundStartTeam = state.roundStartTeam
             /\ s1.events = state.events
             /\ state.roundStartTeam[r] \in Teams
             /\ s1.currentTeamTurn = state.roundStartTeam[r]
             /\ s1.pools # NoObject
             /\ Len(s1.pools[1].primary) = Len(state.items)
             /\ Range(s1.pools[1].primary) = AllItemIds(state)
             /\ s1.pools[1].deferred = <<>>
             /\ s1.pools[1].currentItemId = NoItem
             /\ s1.turnEndEpochMs = NoSeconds
             /\ s1.turnDurationSeconds = NoSeconds
             /\ s1.timerSecondsRemaining = NoSeconds
             /\ s1.carryoverForNextRound = NoObject
             /\ s1.pendingCarryoverSecondsThisRound = NoSeconds
             /\ s1.undoStack = <<>>
             /\ s1.screen = "turnHandoff"

\* Round 2 has just been restarted after a guess in it: its scores are back
\* to 0, round 1 keeps its six points, every item is in primary again.
RestartRoundFrame_Witness ==
  /\ state.screen = "turnHandoff" /\ state.currentRound = 2
  /\ restartMarks # {} /\ Len(state.events) \in restartMarks
  /\ CountEvents(state, "WORD_GUESSED") > 6
  /\ state.scoresByRound[2] = [t \in Teams |-> 0]
  /\ state.scoresByRound[1]["A"] + state.scoresByRound[1]["B"] = 6
  /\ state.pools # NoObject /\ Len(state.pools[1].primary) = 6

\* C23 (restart game): HOST_RESTART_GAME applied to any reachable state, on
\* any screen, returns exactly the state createNewGameState makes: screen
\* hostSetup, no players, items or events, all scores 0, currentRound null, no
\* pools, no timer, an empty undo stack, lastError null, and the setup
\* (team names, player count, timers) back to its defaults.
RestartGameResets ==
  \A s1 \in HOST_RESTART_GAME(state) :
    /\ s1 = createNewGameState
    /\ s1.screen = "hostSetup"
    /\ s1.players = <<>> /\ s1.items = <<>> /\ s1.events = <<>>
    /\ \A r \in Rounds : \A t \in Teams : s1.scoresByRound[r][t] = 0
    /\ s1.currentRound = NoRound
    /\ s1.pools = NoObject
    /\ s1.turnEndEpochMs = NoSeconds
    /\ s1.turnDurationSeconds = NoSeconds
    /\ s1.timerSecondsRemaining = NoSeconds
    /\ s1.undoStack = <<>>
    /\ s1.lastError = NoError
    /\ s1.teams = [A |-> "Blue", B |-> "Red"]
    /\ s1.playerCount = 8
    /\ s1.timerSettings = [round1Seconds |-> 30, round2Seconds |-> 45, round3Seconds |-> 20]
    /\ s1.entryIndex = 0 /\ s1.startingTeamRound1 = NoTeam
    /\ s1.carryoverForNextRound = NoObject
    /\ s1.pendingCarryoverSecondsThisRound = NoSeconds

\* A turn of round 3 is running, with points scored and an undo entry on the
\* stack: HOST_RESTART_GAME resets all of it.
RestartGameResets_Witness ==
  /\ state.screen = "turnActive" /\ state.currentRound = 3
  /\ state.undoStack # <<>> /\ state.scoresByRound[3][state.currentTeamTurn] > 0
  /\ state.playerCount # 8
  /\ HOST_RESTART_GAME(state) = {createNewGameState}

IsPrefix(a, b) == Len(a) <= Len(b) /\ SubSeq(b, 1, Len(a)) = a

\* C24 (append-only event log): for every action other than
\* HOST_START_WORD_ENTRY and HOST_RESTART_GAME the event log before the step
\* is a prefix of the log after it, TURN_UNDO and HOST_RESTART_ROUND included;
\* a TURN_UNDO that undoes appends one UNDO event and leaves the undone
\* WORD_GUESSED or WORD_PASSED event in the log.
AppendOnlyLog ==
  /\ \A s1 \in OtherResults(state, now) \cup TURN_GUESSED(state, now) \cup TURN_UNDO(state)
                 \cup HOST_RESTART_ROUND(state) :
       IsPrefix(state.events, s1.events)
  /\ state.screen = "turnActive" /\ state.undoStack # <<>> =>
       \A s1 \in TURN_UNDO(state) :
         /\ Len(s1.events) = Len(state.events) + 1
         /\ SubSeq(s1.events, 1, Len(state.events)) = state.events
         /\ LastEvent(s1).type = "UNDO"
         /\ \E i \in 1..Len(s1.events) :
              s1.events[i].type = state.undoStack[Len(state.undoStack)].kind

\* A guess has been undone: the log ends with WORD_GUESSED, UNDO.
AppendOnlyLog_Witness ==
  /\ Len(state.events) >= 2
  /\ LastEvent(state).type = "UNDO"
  /\ state.events[Len(state.events) - 1].type = "WORD_GUESSED"
  /\ state.currentRound = 2


\* The states the reducer can return for a setup action of the host
HostSetResults(s) ==
  UNION {HOST_SET_TEAM_NAME(s, n[1], n[2]) : n \in StartTeamNames}
  \cup UNION {HOST_SET_PLAYER_COUNT(s, n) : n \in StartPlayerCounts}
  \cup UNION {HOST_SET_TIMER(s, t[1], t[2]) : t \in StartTimers}

\* The action failed: it changed nothing but lastError, which it set
FailedWith(s, s1) ==
  s1.lastError # NoError /\ s1 = [s EXCEPT !.lastError = s1.lastError]

\* C25 (lastError cleared by the next successful action), as stated: when
\* lastError is non-null, every action that changes the state without failing
\* (a setup action of the host and a tick that lowers the remaining seconds
\* among them) returns a state whose lastError is null.
ErrorClearedBySuccess ==
  state.lastError # NoError =>
    \A s1 \in HostSetResults(state) \cup OtherResults(state, now)
                \cup TURN_SYNC_TIMER(state, now + ClockStepMs)
                \cup TURN_GUESSED(state, now) \cup TURN_UNDO(state)
                \cup HOST_RESTART_ROUND(state) \cup HOST_START_WORD_ENTRY(state)
                \cup HOST_RESTART_GAME(state) :
      s1 # state /\ ~FailedWith(state, s1) => s1.lastError = NoError


\* The times a tick is tried at: now and later, around the end of the turn
TickTimes(s) ==
  {t \in {now, now + 1, now + 999, now + 1000, now + ClockStepMs,
          s.turnEndEpochMs - 1001, s.turnEndEpochMs - 1000, s.turnEndEpochMs - 1,
          s.turnEndEpochMs, s.turnEndEpochMs + 1, s.turnEndEpochMs + ClockStepMs} :
     t >= now}

\* r = max(0, ceil(ms / 1000))
IsCeilSeconds(r, ms) ==
  IF ms <= 0 THEN r = 0 ELSE 1000 * (r - 1) < ms /\ ms <= 1000 * r

\* The tick at time t took the turn s to s1: the seconds are the derived ones,
\* no more than before, and the turn is over iff its end has come
TickedTo(s, t, s1) ==
  /\ IsCeilSeconds(s1.timerSecondsRemaining, s.turnEndEpochMs - t)
  /\ s1.timerSecondsRemaining <= s.timerSecondsRemaining
  /\ s1.timerSecondsRemaining <= s.turnDurationSeconds
  /\ s1.screen = (IF t >= s.turnEndEpochMs THEN "timeUp" ELSE "turnActive")

\* C26 (remaining time is derived): while a turn runs, the clock being at or
\* after the turn's start, timerSecondsRemaining is positive and at most
\* turnDurationSeconds; a TURN_SYNC_TIMER at any time from now on, and a second
\* one at any later time, each leave timerSecondsRemaining =
\* max(0, ceil((turnEndEpochMs - nowMs) / 1000)), never more than it was, and
\* show timeUp iff nowMs >= turnEndEpochMs; after the time-up, ticks change
\* nothing.
RemainingDerived ==
  state.screen = "turnActive" =>
    /\ state.turnEndEpochMs # NoSeconds /\ state.turnDurationSeconds # NoSeconds
    /\ now >= state.turnEndEpochMs - state.turnDurationSeconds * 1000
    /\ 0 < state.timerSecondsRemaining
    /\ state.timerSecondsRemaining <= state.turnDurationSeconds
    /\ \A t1 \in TickTimes(state) : \A s1 \in TURN_SYNC_TIMER(state, t1) :
         /\ TickedTo(state, t1, s1)
         /\ \A t2 \in {t \in TickTimes(state) : t >= t1} :
              \A s2 \in TURN_SYNC_TIMER(s1, t2) :
                IF s1.screen = "timeUp" THEN s2 = s1 ELSE TickedTo(s1, t2, s2)

\* A tick has lowered the seconds of a running turn, time is left
RemainingDerived_Witness ==
  /\ state.screen = "turnActive"
  /\ state.timerSecondsRemaining < state.turnDurationSeconds
  /\ now < state.turnEndEpochMs
  /\ now > state.turnEndEpochMs - state.turnDurationSeconds * 1000


\* The ids of the items of a two-player game
ServeItemIds == 1 .. 6
InPrimary(s, x) == s.pools # NoObject /\ \E i \in 1..Len(s.pools[1].primary) : s.pools[1].primary[i] = x
InDeferred(s, x) == s.pools # NoObject /\ \E i \in 1..Len(s.pools[1].deferred) : s.pools[1].deferred[i] = x
IsCurrent(s, x) == s.pools # NoObject /\ s.pools[1].currentItemId = x

\* Item y waits in deferred (or is passed in this step) while z is in primary:
\* after the step z is the presented item, or y waits in deferred and z is
\* still in primary. As long as this holds from step to step, y is not
\* presented again before z has been.
ServedBefore(y, z) ==
  (InDeferred(state, y) \/ (IsCurrent(state, y) /\ ServePassed))
    /\ InPrimary(state, z)
  => IsCurrent(state', z) \/ (InDeferred(state', y) /\ InPrimary(state', z))

\* The players go on: passes and guesses keep being taken
KeepPlaying == []<><<ServePassed \/ ServeGuessed>>_vars

\* From some point on nothing is undone and the round is not restarted
NoMoreUndoing == <>[][~ServeUndo /\ ~ServeRestartRound]_vars

\* C27 (every item is eventually served, as amended): if passes and guesses
\* keep being taken and, from some point on, none is undone and the round is
\* not restarted, every item in primary or deferred eventually becomes
\* currentItemId, whatever the shuffles; and in every step but a TURN_UNDO and
\* a HOST_RESTART_ROUND, an item that is passed or waits in deferred is not
\* presented before each item that is in primary has been presented.
EventuallyServed ==
  /\ KeepPlaying /\ NoMoreUndoing =>
       \A x \in ServeItemIds :
         [](InPrimary(state, x) \/ InDeferred(state, x) => <>IsCurrent(state, x))
  /\ [][ServeUndo \/ ServeRestartRound
          \/ \A y, z \in ServeItemIds : ServedBefore(y, z)]_vars

\* Two items are left, both were passed in this turn and the passes stand;
\* the first of them is presented again.
EventuallyServed_Witness ==
  /\ state.screen = "turnActive" /\ Len(state.undoStack) = 2
  /\ state.undoStack[1].kind = "WORD_PASSED" /\ state.undoStack[2].kind = "WORD_PASSED"
  /\ state.undoStack[1].wordId = state.pools[1].currentItemId
  /\ state.undoStack[2].wordId # state.pools[1].currentItemId

\* C27 as stated: if passes and guesses keep being taken, every item in
\* primary or deferred eventually becomes currentItemId, and in every step an
\* item that is passed or waits in deferred is not presented before each item
\* that is in primary has been presented.
EventuallyServed_AnyAction ==
  /\ KeepPlaying =>
       \A x \in ServeItemIds :
         [](InPrimary(state, x) \/ InDeferred(state, x) => <>IsCurrent(state, x))
  /\ [][\A y, z \in ServeItemIds : ServedBefore(y, z)]_vars


\* C28 (in-progress predicate, as amended): in every reachable state
\* isInProgressGame is true exactly when currentRound is not null and the
\* screen is not final, or currentRound is null and a player or an item
\* exists; on the final screen of a finished game it is false, players and
\* items notwithstanding.
InProgressPredicate ==
  /\ isInProgressGame(state) <=>
       \/ state.currentRound # NoRound /\ state.screen # "final"
       \/ state.currentRound = NoRound
            /\ (Len(state.players) > 0 \/ Len(state.items) > 0)
  /\ state.screen = "final" => ~isInProgressGame(state)

\* A finished game on its final screen, with its players and items
InProgressPredicate_Witness ==
  /\ state.screen = "final" /\ state.currentRound = LastRound
  /\ Len(state.players) > 0 /\ Len(state.items) > 0
  /\ ~isInProgressGame(state)

\* C28 as stated: isInProgressGame is true exactly when (currentRound is not
\* null and the screen is not final) or at least one player or item exists.
InProgressPredicate_AnyPlayerOrItem ==
  isInProgressGame(state) <=>
    \/ state.currentRound # NoRound /\ state.screen # "final"
    \/ Len(state.players) > 0
    \/ Len(state.items) > 0


\* What the saved game has to be for the state s
Expected(s) == IF isInProgressGame(s) THEN <<s>> ELSE NoObject

\* C29 (persistence follows the state), as stated: once every storage call
\* that was started has completed, loadSavedGame finds the latest state if it
\* is in progress and nothing if it is not.
PersistenceFollowsState ==
  storage.pending = <<>> => loadSavedGame(storage, TRUE) = Expected(state)


\* Texts typed as an item: letters of other scripts, accented letters, ASCII
\* letters, digits, punctuation and blanks around
LetterProbes ==
  { <<"k", "a">>, <<"ka", "ka">>, <<"e_acute", "e_acute">>, <<"a", "ka">>,
    <<" ", "ka", " ", "ka", " ">>, <<"a">>, <<"ka">>, <<"1", "2">>,
    <<" ", "a", "b", " ">>, <<"-", "a", " ", "b">>, <<"a", "1">>, <<" ">>, <<>> }

RECURSIVE CountUnicodeLetters(_)
\* The letters of s, of any script
CountUnicodeLetters(s) ==
  IF s = <<>> THEN 0
  ELSE (IF IsUnicodeLetter(Head(s)) THEN 1 ELSE 0) + CountUnicodeLetters(Tail(s))

\* C30 (letter-count validation), as stated: normalizeFishbowlText returns a
\* result for every text, its displayText is the trimmed text, the item is
\* valid iff the trimmed text has at least 2 letters of any script, and is
\* refused with the too-few-letters error otherwise; a player still to
\* submit whose three items have 2 letters each is not told that an item has
\* too few letters.
LetterCountValidation ==
  /\ \A t \in LetterProbes :
       LET r == normalizeFishbowlText(t)
       IN  /\ r.displayText = Trim(t)
           /\ r.isValid <=> CountUnicodeLetters(Trim(t)) >= MinLetters
           /\ ~r.isValid => r.error = ErrTooFewLetters
  /\ state.screen = "wordEntry" /\ state.entryIndex < state.playerCount =>
       \A t \in LetterProbes :
         CountUnicodeLetters(Trim(t)) >= MinLetters =>
           \A s1 \in ENTRY_SUBMIT_PLAYER(state, NameAnn, "A", <<t, <<"n", "o">>, <<"r", "s">> >>) :
             s1.lastError # "Item 1: " \o ErrTooFewLetters

-----------------------------------------------------------------------------
(* C31: the shuffle                                                         *)

\* The first MaxShuffleLen elements of seq
Shortened(seq) == SubSeq(seq, 1, Min(Len(seq), MaxShuffleLen))

\* Sequences handed to shuffled in state s (all item ids; the deferred pool
\* on a refill; the primary pool with the item in flight on time-up), and
\* the owners of the items, a sequence with repeated elements
ShuffleInputs(s) ==
  LET ids    == [i \in 1..Len(s.items) |-> s.items[i].id]
      owners == [i \in 1..Len(s.items) |-> s.items[i].ownerPlayerId]
      inPool == IF s.pools = NoObject THEN {}
                ELSE {s.pools[1].deferred, s.pools[1].primary} \cup
                     (IF s.pools[1].currentItemId = NoItem THEN {}
                      ELSE {Append(s.pools[1].primary, s.pools[1].currentItemId)})
  IN  {Shortened(seq) : seq \in {ids, owners} \cup inPool}

\* Number of positions of seq that hold x
Occurrences(seq, x) == Cardinality({i \in 1..Len(seq) : seq[i] = x})

SameMultiset(a, b) ==
  /\ Len(a) = Len(b)
  /\ \A x \in Range(a) \cup Range(b) : Occurrences(a, x) = Occurrences(b, x)

\* Every rearrangement of arr
Rearrangements(arr) ==
  LET n == Len(arr)
  IN  {[i \in 1..n |-> arr[f[i]]] : f \in {g \in [1..n -> 1..n] : Range(g) = 1..n}}

-----------------------------------------------------------------------------
\* C32 (ready means startable), as stated: on the ready screen the fishbowl
\* holds playerCount * 3 items, and READY_START_ROUND1 starts round 1 (round
\* 1, hand-off screen, pools holding every item, ROUND_STARTED logged last)
\* without the item-count error, whatever setup actions came before.
ReadyMeansStartable ==
  state.screen = "ready" =>
    /\ Len(state.items) = state.playerCount * 3
    /\ \A s1 \in READY_START_ROUND1(state) :
         /\ s1.currentRound = 1 /\ s1.screen = "turnHandoff"
         /\ s1.lastError # ErrItemCount
         /\ s1.pools # NoObject
         /\ Range(s1.pools[1].primary) = AllItemIds(state)
         /\ Len(s1.pools[1].primary) = Len(state.items)
         /\ s1.pools[1].deferred = <<>> /\ s1.pools[1].currentItemId = NoItem
         /\ Len(s1.events) = Len(state.events) + 1
         /\ LastEvent(s1).type = "ROUND_STARTED" /\ LastEvent(s1).round = 1

-----------------------------------------------------------------------------
\* C33 (an item is presented exactly during an active turn): while a round
\* is active the pools exist and an item is in flight iff the screen is
\* turnActive; on turnActive every result of TURN_GUESSED and of TURN_PASSED
\* differs from the state (the action is not ignored), and every time-up
\* result has put the item in flight back into the primary pool.
ItemExactlyInActiveTurn ==
  state.currentRound # NoRound =>
    /\ state.pools # NoObject
    /\ state.pools[1].currentItemId # NoItem <=> state.screen = "turnActive"
    /\ state.screen = "turnActive" =>
         /\ \A s1 \in TURN_GUESSED(state, now) \cup TURN_PASSED(state) : s1 # state
         /\ \A s1 \in TURN_SYNC_TIMER(state, state.turnEndEpochMs) :
              /\ s1.screen = "timeUp"
              /\ s1.pools[1].currentItemId = NoItem
              /\ state.pools[1].currentItemId \in Range(s1.pools[1].primary)
              /\ Len(s1.pools[1].primary) = Len(state.pools[1].primary) + 1

\* An active turn of round 2 or later in which an undo has just brought an
\* item back.
ItemExactlyInActiveTurn_Witness ==
  /\ state.screen = "turnActive" /\ state.currentRound >= 2
  /\ state.pools[1].currentItemId # NoItem
  /\ Len(state.events) > 0 /\ LastEvent(state).type = "UNDO"

-----------------------------------------------------------------------------
\* The two scores of round r
RoundScore(s, r) == s.scoresByRound[r]["A"] + s.scoresByRound[r]["B"]

\* C35 (scores account for every item): while a round is active, the round's
\* two scores plus the sizes of the pools plus the item in flight equal the
\* number of items; on roundComplete the round's scores sum to the number of
\* items, on final those of each of the three rounds do; no score is
\* negative or exceeds the number of items.
ScoresAccountForItems ==
  /\ state.currentRound # NoRound =>
       /\ RoundScore(state, state.currentRound) + PoolSize(state) = Len(state.items)
       /\ state.screen = "roundComplete" =>
            RoundScore(state, state.currentRound) = Len(state.items)
       /\ state.screen = "final" =>
            \A r \in 1..LastRound : RoundScore(state, r) = Len(state.items)
  /\ \A r \in 1..LastRound : \A t \in Teams :
       state.scoresByRound[r][t] \in 0..Len(state.items)

\* The final screen of a game in which a round was restarted after points
\* had been scored in it.
ScoresAccountForItems_Witness ==
  /\ state.screen = "final" /\ restarts > 0 /\ Len(state.items) > 0
  /\ \E i \in 1..Len(state.events) :
       /\ state.events[i].type = "WORD_GUESSED"
       /\ Cardinality({j \in 1..Len(state.events) :
                         /\ state.events[j].type = "WORD_GUESSED"
                         /\ state.events[j].round = state.events[i].round})
            > Len(state.items)

-----------------------------------------------------------------------------
\* C36 (carryover lives only where it can be used): carryoverForNextRound is
\* set only on roundComplete of round 1 or 2, with at least 1 second and for
\* the team that finished the round, which is the team in turn;
\* pendingCarryoverSecondsThisRound is set only on turnHandoff or turnStart
\* of round 2 or 3 with ROUND_STARTED of that round as the last event (no
\* turn of the round has started), at least 1 second, and the previous
\* round's finisher in turn; on turnActive, timeUp and final both are null.
CarryoverOnlyWhereUsable ==
  /\ state.carryoverForNextRound # NoObject =>
       /\ state.screen = "roundComplete" /\ state.currentRound \in {1, 2}
       /\ state.carryoverForNextRound[1].seconds >= 1
       /\ state.carryoverForNextRound[1].teamId = state.roundFinisherTeam[state.currentRound]
       /\ state.carryoverForNextRound[1].teamId = state.currentTeamTurn
  /\ state.pendingCarryoverSecondsThisRound # NoSeconds =>
       /\ state.screen \in {"turnHandoff", "turnStart"} /\ state.currentRound \in {2, 3}
       /\ state.pendingCarryoverSecondsThisRound >= 1
       /\ LastEvent(state).type = "ROUND_STARTED"
       /\ LastEvent(state).round = state.currentRound
       /\ state.currentTeamTurn = state.roundFinisherTeam[state.currentRound - 1]
  /\ state.screen \in {"turnActive", "timeUp", "final"} =>
       /\ state.carryoverForNextRound = NoObject
       /\ state.pendingCarryoverSecondsThisRound = NoSeconds

\* Round 3 is about to start on seconds carried over from round 2 that differ
\* from the round's configured seconds.
CarryoverOnlyWhereUsable_Witness ==
  /\ state.screen = "turnStart" /\ state.currentRound = 3
  /\ state.pendingCarryoverSecondsThisRound # NoSeconds
  /\ state.pendingCarryoverSecondsThisRound # getDefaultTurnSeconds(state, 3)

-----------------------------------------------------------------------------
\* The turn that follows state s on the way ROUND_PROCEED, HANDOFF_ACK,
\* TURN_START, started at nowMs
NextRoundFirstTurns(s, nowMs) ==
  UNION {TURN_START(s3, nowMs) : s3 \in UNION {HANDOFF_ACK(s2) : s2 \in ROUND_PROCEED(s)}}

\* C37 (a tap that races the clock still counts): on turnActive with the
\* clock at or past turnEndEpochMs and no tick yet processed, TURN_GUESSED
\* adds 1 point for the team in turn; with items left it stays on turnActive
\* with another item of the pools in flight and the deadline untouched; on
\* the last item it completes the round with no carryover, and in rounds 1
\* and 2 the finisher starts the next round with its configured seconds.
\* TURN_PASSED is logged, changes no score, keeps every item in the pools and
\* leaves an item in flight.
RacingTapCounts ==
  state.screen = "turnActive" /\ now >= state.turnEndEpochMs =>
    LET round == state.currentRound
        team  == state.currentTeamTurn
        p     == state.pools[1]
    IN  /\ \A s1 \in TURN_GUESSED(state, now) :
             /\ s1.scoresByRound = AddPoint(state.scoresByRound, round, team)
             /\ IF PoolSize(state) > 1
                THEN /\ s1.screen = "turnActive"
                     /\ s1.turnEndEpochMs = state.turnEndEpochMs
                     /\ s1.pools[1].currentItemId \in Range(p.primary) \cup Range(p.deferred)
                ELSE /\ s1.screen = "roundComplete"
                     /\ s1.carryoverForNextRound = NoObject
                     /\ s1.roundFinisherTeam[round] = team
                     /\ round < LastRound =>
                          \A s4 \in NextRoundFirstTurns(s1, now) :
                            /\ s4.screen = "turnActive" /\ s4.currentRound = round + 1
                            /\ s4.currentTeamTurn = team
                            /\ s4.turnDurationSeconds = getDefaultTurnSeconds(state, round + 1)
        /\ \A s1 \in TURN_PASSED(state) :
             /\ s1.screen = "turnActive" /\ s1.scoresByRound = state.scoresByRound
             /\ s1.turnEndEpochMs = state.turnEndEpochMs
             /\ s1.pools[1].currentItemId # NoItem
             /\ PoolSize(s1) = PoolSize(state)
             /\ LastEvent(s1).type = "WORD_PASSED"

\* Round 1 or 2 has been completed by a guess and nothing is carried over:
\* the guess came when the clock had reached the deadline.
RacingTapCounts_Witness ==
  /\ state.screen = "roundComplete" /\ state.currentRound < LastRound
  /\ state.carryoverForNextRound = NoObject
  /\ LastEvent(state).type = "ROUND_COMPLETED"
  /\ state.events[Len(state.events) - 1].type = "WORD_GUESSED"

-----------------------------------------------------------------------------
\* C39 (save/load round trip across the storage fallback), as stated: when a
\* saveGame call completes, its write taken by IndexedDB or, that write
\* having failed, by localStorage, a following loadSavedGame (whose own
\* IndexedDB read works) returns the saved payload; when a clearSavedGame
\* call completes, a following loadSavedGame returns nothing.
SaveLoadRoundTrip ==
  [][StorageCompletes =>
       LET call == Head(storage.pending)
       IN  IF call.op = "save"
           THEN loadSavedGame(storage', TRUE) = call.payload
           ELSE loadSavedGame(storage', TRUE) = NoObject]_vars

-----------------------------------------------------------------------------
\* C38 (every active turn ends), as stated: with ticks delivered while the
\* screen is turnActive (weak fairness on the tick), every active turn is
\* followed by the timeUp or the roundComplete screen, whatever guesses,
\* passes and undos are interleaved, and timerSecondsRemaining is never 0
\* during an active turn.
EveryActiveTurnEnds ==
  /\ [](state.screen = "turnActive" => state.timerSecondsRemaining # 0)
  /\ [](state.screen = "turnActive" => <>(state.screen \in {"timeUp", "roundComplete"}))

-----------------------------------------------------------------------------
\* The deadline, the duration, the round and the team in turn are the same
\* in s and s1
SameTurn(s, s1) ==
  /\ s1.turnEndEpochMs = s.turnEndEpochMs
  /\ s1.turnDurationSeconds = s.turnDurationSeconds
  /\ s1.currentRound = s.currentRound
  /\ s1.currentTeamTurn = s.currentTeamTurn

\* C34 (the turn deadline exists exactly during an active turn and is fixed
\* for the turn), as stated: turnEndEpochMs and turnDurationSeconds are set
\* iff the screen is turnActive; a TURN_START that starts a turn sets
\* turnEndEpochMs = now + durationSeconds * 1000 and timerSecondsRemaining =
\* durationSeconds >= 1; TURN_GUESSED not completing the round, TURN_PASSED,
\* TURN_UNDO and a tick that finds time left change neither the deadline nor
\* the duration, the round or the team in turn.
DeadlineExactlyInTurn ==
  /\ state.turnEndEpochMs # NoSeconds <=> state.screen = "turnActive"
  /\ state.turnDurationSeconds # NoSeconds <=> state.screen = "turnActive"
  /\ state.screen = "turnStart" =>
       \A s1 \in TURN_START(state, now) :
         s1.screen = "turnActive" =>
           /\ s1.turnDurationSeconds >= 1
           /\ s1.timerSecondsRemaining = s1.turnDurationSeconds
           /\ s1.turnEndEpochMs = now + s1.turnDurationSeconds * 1000
  /\ state.screen = "turnActive" =>
       /\ \A s1 \in TURN_GUESSED(state, now) :
            s1.screen # "roundComplete" => SameTurn(state, s1)
       /\ \A s1 \in TURN_PASSED(state) \cup TURN_UNDO(state) : SameTurn(state, s1)
       /\ \A t \in TickTimes(state) : \A s1 \in TURN_SYNC_TIMER(state, t) :
            s1.screen # "timeUp" => SameTurn(state, s1)

====
